---- MODULE Spec2Model ----
(***************************************************************************)
(* Per-AG space accounting of xfsprogs' libxfs: the reference-count btree  *)
(* adjuster (xfs_refcount.c), the reverse-map btree maintainer and its     *)
(* deferred intent list (xfs_rmap.c) and the per-AG reservation pool       *)
(* (xfs_ag_resv.c).  The generic btree engine is modelled by what the      *)
(* cursor calls used here do on an ordered sequence of records.            *)
(***************************************************************************)
EXTENDS Integers, Sequences, FiniteSets, TLC

(***************************************************************************)
(* Sizes of the model.                                                     *)
(***************************************************************************)
\* sb_agblocks: the blocks of the one AG are 0 .. AgBlocks-1
AgBlocks == 4

\* largest value of xfs_nlink_t; arithmetic on rc_refcount is modulo
\* MAXREFCOUNT + 1 (the type's width, scaled to the model)
MAXREFCOUNT == 4

\* largest value of xfs_extlen_t / xfs_agblock_t (scaled to the model)
MAXREFCEXTLEN == 15

OK == "OK"
EFSCORRUPTED == "EFSCORRUPTED"

Min2(a, b) == IF a < b THEN a ELSE b
Max2(a, b) == IF a > b THEN a ELSE b
SetMax(S) == CHOOSE x \in S : \A y \in S : y <= x
SetMin(S) == CHOOSE x \in S : \A y \in S : x <= y

VARIABLES
    refcbt,     \* the refcount btree of the AG: its records in cursor order
    rc_call,    \* the last refcount call: [op, agbno, aglen]
    rc_error,   \* what the last refcount call returned
    rc_flist,   \* extents the last call handed to xfs_bmap_add_free
    hasrmapbt,  \* xfs_sb_version_hasrmapbt(&mp->m_sb)
    rmapbt,     \* the rmap btree of the AG: its records in cursor order
    rm_call,    \* the last rmap call: [op, bno, len, owner, offset]
    rm_error,   \* what the last rmap call returned
    rm_before,  \* the rmap btree as the last rmap call found it
    rl_first,   \* struct xfs_rmap_list: the linked intents, head first
    rl_count,   \* struct xfs_rmap_list: rl_count
    rl_call,    \* the last call on the deferred list: [op, was]
    rl_error,   \* what the last call on the deferred list returned
    rl_log,     \* the calls the last flush made, in the order made
    rl_curs,    \* the buffers and cursors the last flush took and released
    agf_rmapbt, \* the rmap btree of every AG, by AG number
    tp,         \* the transaction: how many times it was rolled
    pag,        \* struct xfs_perag: pag_meta_resv, pag_agfl_resv
    pagf,       \* struct xfs_perag: pagf_freeblks, pagf_flcount
    crit,       \* the last xfs_ag_resv_critical call: [type, ret]
    mp,         \* struct xfs_mount: m_ag_max_usable, m_fdblocks
    resv_call,  \* the last reservation call: [op, type, len, calc, was]
    resv_error  \* what the last reservation call returned

rc_vars == <<refcbt, rc_call, rc_error, rc_flist>>
rm_vars == <<rmapbt, rm_call, rm_error, rm_before>>
rl_vars == <<rl_first, rl_count, rl_call, rl_error, rl_log, rl_curs, agf_rmapbt,
            tp>>
resv_vars == <<pag, pagf, crit, mp, resv_call, resv_error>>
vars == <<rc_vars, hasrmapbt, rm_vars, rl_vars, resv_vars>>

(***************************************************************************)
(* xfs_rmap.c: the reverse-map btree.  The index is that of a filesystem   *)
(* with the extended key (xfs_rmapxbt_ops): records are kept in the order  *)
(* of (rm_startblock, rm_owner, rm_offset).                                *)
(***************************************************************************)
\* special owners: the uint64 values -1ULL .. -10ULL, written as the int64
\* they are under the (__int64_t) differences of the key comparison
XFS_RMAP_OWN_NULL == -1
XFS_RMAP_OWN_UNKNOWN == -2
XFS_RMAP_OWN_FS == -3
XFS_RMAP_OWN_AG == -5
XFS_RMAP_OWN_COW == -9

\* the owner has its top bit set
XFS_RMAP_NON_INODE_OWNER(owner) == owner < 0

\* flag bits of rm_offset (a uint64 of width 2 * XFS_RMAP_OFF_ATTR, scaled)
\* and of rm_blockcount
XFS_RMAP_OFF_ATTR == 8
XFS_RMAP_OFF_BMBT == 4
XFS_RMAP_LEN_UNWRITTEN == 8

XFS_RMAP_IS_ATTR_FORK(off) == (off \div XFS_RMAP_OFF_ATTR) % 2 = 1
XFS_RMAP_IS_BMBT(off) == (off \div XFS_RMAP_OFF_BMBT) % 2 = 1
XFS_RMAP_IS_UNWRITTEN(len) == (len \div XFS_RMAP_LEN_UNWRITTEN) % 2 = 1
XFS_RMAP_LEN(len) ==
    IF XFS_RMAP_IS_UNWRITTEN(len) THEN len - XFS_RMAP_LEN_UNWRITTEN ELSE len

\* struct xfs_rmap_irec
RmapIrec(bno, len, owner, offset) ==
    [rm_startblock |-> bno, rm_blockcount |-> len,
     rm_owner |-> owner, rm_offset |-> offset]

\* a uint64 difference read as __int64_t
AsInt64(x) ==
    LET m == x % (2 * XFS_RMAP_OFF_ATTR)
    IN  IF m >= XFS_RMAP_OFF_ATTR THEN m - 2 * XFS_RMAP_OFF_ATTR ELSE m

\* the key of the record kp minus the key looked for
xfs_rmapxbt_key_diff(kp, rec) ==
    IF kp.rm_startblock # rec.rm_startblock
    THEN kp.rm_startblock - rec.rm_startblock
    ELSE IF kp.rm_owner # rec.rm_owner
         THEN kp.rm_owner - rec.rm_owner
         ELSE AsInt64(kp.rm_offset - rec.rm_offset)

\* xfs_btree_lookup(XFS_LOOKUP_LE): the cursor position of the last record
\* whose key is <= the key looked for, 0 (stat 0) when there is none
xfs_rmap_lookup_le(t, bno, len, owner, offset) ==
    LET rec == RmapIrec(bno, len, owner, offset)
        S == {i \in 1..Len(t) : xfs_rmapxbt_key_diff(t[i], rec) <= 0}
    IN  IF S = {} THEN 0 ELSE SetMax(S)

xfs_rmap_update(t, cur, irec) == [t EXCEPT ![cur] = irec]

\* xfs_btree_insert: the record goes in at the cursor position
RmapBtreeInsert(t, cur, irec) ==
    SubSeq(t, 1, cur - 1) \o <<irec>> \o SubSeq(t, cur, Len(t))

\* a delete that leaves the record in place
DeleteNothing(t, cur) == t

\* xfs_btree_delete: the cursor stays where the record was
RmapBtreeDelete(t, cur) == SubSeq(t, 1, cur - 1) \o SubSeq(t, cur + 1, Len(t))

RmapResult(t, err) == [t |-> t, err |-> err]

\* a free that removes the located record whatever the owner asked for
FreeDropsLocated(has, t, bno, len, owner, offset) ==
    IF ~has THEN RmapResult(t, OK)
    ELSE IF xfs_rmap_lookup_le(t, bno, len, owner, offset) = 0
    THEN RmapResult(t, EFSCORRUPTED)
    ELSE RmapResult(RmapBtreeDelete(t,
             xfs_rmap_lookup_le(t, bno, len, owner, offset)), OK)

xfs_rmap_free(has, t, bno, len, owner, offset) ==
    IF ~has THEN RmapResult(t, OK)
    ELSE
    LET i == xfs_rmap_lookup_le(t, bno, len, owner, offset) IN
    IF i = 0 THEN RmapResult(t, EFSCORRUPTED)
    ELSE
    LET ltrec == t[i]
        ltoff == IF XFS_RMAP_IS_BMBT(ltrec.rm_offset)
                 THEN ltrec.rm_offset - XFS_RMAP_OFF_BMBT
                 ELSE ltrec.rm_offset
        ltend == ltrec.rm_startblock + ltrec.rm_blockcount
    IN
    IF owner = XFS_RMAP_OWN_NULL
    THEN IF bno > ltend THEN RmapResult(t, OK)
                        ELSE RmapResult(t, EFSCORRUPTED)
    ELSE IF XFS_RMAP_IS_UNWRITTEN(ltrec.rm_blockcount)
    THEN RmapResult(t, EFSCORRUPTED)
    ELSE IF ~(/\ ltrec.rm_startblock <= bno
              /\ ltrec.rm_startblock + XFS_RMAP_LEN(ltrec.rm_blockcount)
                     >= bno + len)
    THEN RmapResult(t, EFSCORRUPTED)
    ELSE IF ~(owner = ltrec.rm_owner \/ XFS_RMAP_NON_INODE_OWNER(owner))
    THEN RmapResult(t, EFSCORRUPTED)
    ELSE IF /\ ~XFS_RMAP_NON_INODE_OWNER(owner)
            /\ IF XFS_RMAP_IS_BMBT(offset)
               THEN ~XFS_RMAP_IS_BMBT(ltrec.rm_offset)
               ELSE ~(/\ ltrec.rm_offset <= offset
                      /\ offset <= ltoff + ltrec.rm_blockcount)
    THEN RmapResult(t, EFSCORRUPTED)
    ELSE IF ltrec.rm_startblock = bno /\ ltrec.rm_blockcount = len
    THEN \* exact match, simply remove the record
         RmapResult(RmapBtreeDelete(t, i), OK)
    ELSE IF ltrec.rm_startblock = bno
    THEN \* overlap left hand side of extent
         RmapResult(xfs_rmap_update(t, i,
             [ltrec EXCEPT !.rm_startblock = @ + len,
                           !.rm_blockcount = @ - len]), OK)
    ELSE IF ltend = bno + len
    THEN \* overlap right hand side of extent
         RmapResult(xfs_rmap_update(t, i,
             [ltrec EXCEPT !.rm_blockcount = @ - len]), OK)
    ELSE \* overlap middle of extent
         LET orig_len == ltrec.rm_blockcount
             lt2 == [ltrec EXCEPT !.rm_blockcount = bno - ltrec.rm_startblock]
             t1 == xfs_rmap_update(t, i, lt2)
         IN  RmapResult(RmapBtreeInsert(t1, i + 1,
                 RmapIrec(bno + len, orig_len - len - lt2.rm_blockcount,
                          ltrec.rm_owner, offset)), OK)

\* a mergeable test that accepts no record
NeverMergeable(irec, owner, offset) == FALSE

is_mergeable_rmap(irec, owner, offset) ==
    /\ irec.rm_owner # XFS_RMAP_OWN_NULL
    /\ irec.rm_owner = owner
    /\ ~XFS_RMAP_IS_UNWRITTEN(irec.rm_blockcount)
    /\ XFS_RMAP_IS_ATTR_FORK(offset) = XFS_RMAP_IS_ATTR_FORK(irec.rm_offset)
    /\ XFS_RMAP_IS_BMBT(offset) = XFS_RMAP_IS_BMBT(irec.rm_offset)

\* "gtrec.rm_owner = XFS_RMAP_OWN_NULL" when there is no record to the right:
\* the owner is the one field of gtrec that is read then
NoGtrec == RmapIrec(0, 0, XFS_RMAP_OWN_NULL, 0)

xfs_rmap_alloc(has, t, bno, len, owner, offset) ==
    IF ~has THEN RmapResult(t, OK)
    ELSE
    LET i == xfs_rmap_lookup_le(t, bno, len, owner, offset) IN
    IF i = 0 THEN RmapResult(t, EFSCORRUPTED)
    ELSE
    LET ltrec == IF is_mergeable_rmap(t[i], owner, offset)
                 THEN t[i]
                 ELSE [t[i] EXCEPT !.rm_owner = XFS_RMAP_OWN_NULL]
        cur == i + 1
        have_gt == cur <= Len(t)
    IN
    IF ~(\/ ltrec.rm_owner = XFS_RMAP_OWN_NULL
         \/ ltrec.rm_startblock + ltrec.rm_blockcount <= bno)
    THEN RmapResult(t, EFSCORRUPTED)
    ELSE IF have_gt /\ ~(bno + len <= t[cur].rm_startblock)
    THEN RmapResult(t, EFSCORRUPTED)
    ELSE
    LET gt0 == IF have_gt THEN t[cur] ELSE NoGtrec
        gtrec == IF is_mergeable_rmap(gt0, owner, offset)
                 THEN gt0
                 ELSE [gt0 EXCEPT !.rm_owner = XFS_RMAP_OWN_NULL]
        right_contig == /\ gtrec.rm_owner = owner
                        /\ bno + len = gtrec.rm_startblock
    IN
    IF /\ ltrec.rm_owner = owner
       /\ ltrec.rm_startblock + ltrec.rm_blockcount = bno
    THEN \* left edge contiguous, merge into left record
         IF right_contig
         THEN \* right edge also contiguous, delete right record
              RmapResult(xfs_rmap_update(RmapBtreeDelete(t, cur), cur - 1,
                  [ltrec EXCEPT !.rm_blockcount =
                                    @ + len + gtrec.rm_blockcount]), OK)
         ELSE RmapResult(xfs_rmap_update(t, cur - 1,
                  [ltrec EXCEPT !.rm_blockcount = @ + len]), OK)
    ELSE IF right_contig
    THEN \* right edge contiguous, merge into right record
         RmapResult(xfs_rmap_update(t, cur,
             [gtrec EXCEPT !.rm_startblock = bno,
                           !.rm_blockcount = @ + len]), OK)
    ELSE \* no contiguous edge with identical owner, insert new record
         RmapResult(RmapBtreeInsert(t, cur,
             RmapIrec(bno, len, owner, offset)), OK)

(***************************************************************************)
(* xfs_rmap.c: the deferred rmap intent list.                              *)
(***************************************************************************)
\* number of AGs of the filesystem, and inode numbers that own intents
NumAGs == 2
MaxIno == 1
\* longest deferred list explored
MaxIntents == 3

\* sb_agblklog: the AG number of a filesystem block is the block number
\* shifted right by it
AgBlkSize == SetMin({p \in {1, 2, 4, 8, 16, 32} : p >= AgBlocks})
XFS_FSB_TO_AGNO(fsb) == fsb \div AgBlkSize

\* the AG numbers of the filesystem
AGs == 0..(NumAGs - 1)

\* struct xfs_bmbt_irec: a one-block written extent at file offset 0
Bmbt(fsb) ==
    [br_startoff |-> 0, br_startblock |-> fsb, br_blockcount |-> 1,
     br_state |-> "XFS_EXT_NORM"]

\* the extents handed to the queueing calls: the first block past the AG
\* headers of each AG
Extents == {Bmbt(agno * AgBlkSize + 1) : agno \in 0..(NumAGs - 1)}
Inodes == 1..MaxIno
Forks == {"XFS_DATA_FORK"}
Adjs == {1}

\* a member of the on-stack intent that the queueing call never assigned
Unset == "unset"

\* struct xfs_rmap_intent without ri_next
Intent(type, ino, whichfork, prev, left, right, adj) ==
    [ri_type |-> type, ri_ino |-> ino, ri_whichfork |-> whichfork,
     ri_prev |-> prev, ri_left |-> left, ri_right |-> right, ri_adj |-> adj]

rmap_ag(ri) ==
    IF ri.ri_type \in {"XFS_RMAP_COMBINE", "XFS_RMAP_LCOMBINE"}
    THEN XFS_FSB_TO_AGNO(ri.ri_left.br_startblock)
    ELSE IF ri.ri_type = "XFS_RMAP_RCOMBINE"
    THEN XFS_FSB_TO_AGNO(ri.ri_right.br_startblock)
    ELSE XFS_FSB_TO_AGNO(ri.ri_prev.br_startblock)

\* struct xfs_rmap_list
Rlist(first, count) == [rl_first |-> first, rl_count |-> count]

\* a cancel that resets the count and leaves the intents linked
CancelKeepsFirst(rlist) == Rlist(rlist.rl_first, 0)

xfs_rmap_cancel(rlist) ==
    IF rlist.rl_count = 0 THEN rlist ELSE Rlist(<<>>, 0)

\* a walk that already stops at the first intent of the new intent's own AG
AddBeforeOwnAg(has, rlist, ri) ==
    IF ~has THEN rlist
    ELSE
    LET new_agno == rmap_ag(ri)
        l == rlist.rl_first
        later == {k \in 1..Len(l) : rmap_ag(l[k]) >= new_agno}
        cur == IF later = {} THEN Len(l) + 1 ELSE SetMin(later)
    IN  Rlist(SubSeq(l, 1, cur - 1) \o <<ri>> \o SubSeq(l, cur, Len(l)),
              rlist.rl_count + 1)

\* the walk stops at the first intent of a later AG; the new intent is
\* linked in before it
__xfs_rmap_add(has, rlist, ri) ==
    IF ~has THEN rlist
    ELSE
    LET new_agno == rmap_ag(ri)
        l == rlist.rl_first
        later == {k \in 1..Len(l) : rmap_ag(l[k]) > new_agno}
        cur == IF later = {} THEN Len(l) + 1 ELSE SetMin(later)
    IN  Rlist(SubSeq(l, 1, cur - 1) \o <<ri>> \o SubSeq(l, cur, Len(l)),
              rlist.rl_count + 1)

xfs_rmap_combine(has, rlist, ino, whichfork, left, right, prev) ==
    __xfs_rmap_add(has, rlist,
        Intent("XFS_RMAP_COMBINE", ino, whichfork, prev, left, right, Unset))

xfs_rmap_lcombine(has, rlist, ino, whichfork, left, prev) ==
    __xfs_rmap_add(has, rlist,
        Intent("XFS_RMAP_LCOMBINE", ino, whichfork, prev, left, Unset, Unset))

xfs_rmap_rcombine(has, rlist, ino, whichfork, right, prev) ==
    __xfs_rmap_add(has, rlist,
        Intent("XFS_RMAP_RCOMBINE", ino, whichfork, prev, Unset, right, Unset))

xfs_rmap_insert(has, rlist, ino, whichfork, new) ==
    __xfs_rmap_add(has, rlist,
        Intent("XFS_RMAP_INSERT", ino, whichfork, new, Unset, Unset, Unset))

xfs_rmap_delete(has, rlist, ino, whichfork, new) ==
    __xfs_rmap_add(has, rlist,
        Intent("XFS_RMAP_DELETE", ino, whichfork, new, Unset, Unset, Unset))

xfs_rmap_move(has, rlist, ino, whichfork, prev, start_adj) ==
    __xfs_rmap_add(has, rlist,
        Intent("XFS_RMAP_MOVE", ino, whichfork, prev, Unset, Unset, start_adj))

xfs_rmap_slide(has, rlist, ino, whichfork, prev, start_adj) ==
    __xfs_rmap_add(has, rlist,
        Intent("XFS_RMAP_SLIDE", ino, whichfork, prev, Unset, Unset, start_adj))

xfs_rmap_resize(has, rlist, ino, whichfork, prev, size_adj) ==
    __xfs_rmap_add(has, rlist,
        Intent("XFS_RMAP_RESIZE", ino, whichfork, prev, Unset, Unset, size_adj))

(***************************************************************************)
(* xfs_rmap.c: applying the deferred intents to the rmap btrees.           *)
(***************************************************************************)
EIO == "EIO"

\* the block's number inside its AG
XFS_FSB_TO_AGBNO(fsb) == fsb % AgBlkSize

\* a delayed-allocation extent has no start block yet
isnullstartblock(fsb) == fsb < 0

\* x |= flag, flag being one bit
SetFlag(x, flag) == IF (x \div flag) % 2 = 1 THEN x ELSE x + flag

\* Encode logical offset for a rmapbt record
b2r_off(whichfork, off) ==
    LET x == off % (2 * XFS_RMAP_OFF_ATTR)
    IN  IF whichfork = "XFS_ATTR_FORK" THEN SetFlag(x, XFS_RMAP_OFF_ATTR)
        ELSE x

\* Encode blockcount for a rmapbt record
b2r_len(irec) ==
    LET x == irec.br_blockcount % (2 * XFS_RMAP_LEN_UNWRITTEN)
    IN  IF irec.br_state = "XFS_EXT_UNWRITTEN"
        THEN SetFlag(x, XFS_RMAP_LEN_UNWRITTEN)
        ELSE x

\* xfs_btree_lookup(XFS_LOOKUP_EQ): stat is 1 and the cursor is on the
\* record when one has the key looked for; else stat is 0 and the cursor
\* is where a record of that key goes in
xfs_rmap_lookup_eq(t, bno, len, owner, offset) ==
    LET rec == RmapIrec(bno, len, owner, offset)
        eq == {i \in 1..Len(t) : xfs_rmapxbt_key_diff(t[i], rec) = 0}
        lt == {i \in 1..Len(t) : xfs_rmapxbt_key_diff(t[i], rec) < 0}
    IN  IF eq # {} THEN [stat |-> 1, cur |-> SetMin(eq)]
        ELSE [stat |-> 0, cur |-> Cardinality(lt) + 1]

RmapInsertAt(t, lk, irec) ==
    IF lk.stat # 0 THEN RmapResult(t, EFSCORRUPTED)
    ELSE RmapResult(RmapBtreeInsert(t, lk.cur, irec), OK)

xfs_rmapbt_insert(t, agbno, len, owner, offset) ==
    RmapInsertAt(t, xfs_rmap_lookup_eq(t, agbno, len, owner, offset),
                 RmapIrec(agbno, len, owner, offset))

RmapDeleteAt(t, lk) ==
    IF lk.stat # 1 THEN RmapResult(t, EFSCORRUPTED)
    ELSE RmapResult(RmapBtreeDelete(t, lk.cur), OK)

xfs_rmapbt_delete(t, agbno, len, owner, offset) ==
    RmapDeleteAt(t, xfs_rmap_lookup_eq(t, agbno, len, owner, offset))

\* the record a bmbt extent of ino's fork stands for
RmapInsertBmbt(t, ino, whichfork, rec) ==
    xfs_rmapbt_insert(t, XFS_FSB_TO_AGBNO(rec.br_startblock), b2r_len(rec),
                      ino, b2r_off(whichfork, rec.br_startoff))

RmapDeleteBmbt(t, ino, whichfork, rec) ==
    xfs_rmapbt_delete(t, XFS_FSB_TO_AGBNO(rec.br_startblock), b2r_len(rec),
                      ino, b2r_off(whichfork, rec.br_startoff))

\* Insert a rmap extent
__xfs_rmap_insert(t, ino, whichfork, rec) ==
    RmapInsertBmbt(t, ino, whichfork, rec)

\* Delete a rmap extent
__xfs_rmap_delete(t, ino, whichfork, rec) ==
    RmapDeleteBmbt(t, ino, whichfork, rec)

RmapResizeAt(t, lk, PREV, size_adj) ==
    IF lk.stat # 1 THEN RmapResult(t, EFSCORRUPTED)
    ELSE RmapResult(
           xfs_rmap_update(t, lk.cur,
               [t[lk.cur] EXCEPT !.rm_blockcount =
                   b2r_len([PREV EXCEPT !.br_blockcount = @ + size_adj])]),
           OK)

\* Change the size of an rmap
__xfs_rmap_resize(t, ino, whichfork, PREV, size_adj) ==
    RmapResizeAt(t,
        xfs_rmap_lookup_eq(t, XFS_FSB_TO_AGBNO(PREV.br_startblock),
                           b2r_len(PREV), ino,
                           b2r_off(whichfork, PREV.br_startoff)),
        PREV, size_adj)

RmapMoveReadd(r, ino, whichfork, PREV, start_adj) ==
    IF r.err # OK THEN r
    ELSE RmapInsertBmbt(r.t, ino, whichfork,
            [PREV EXCEPT !.br_startblock = @ + start_adj,
                         !.br_startoff = @ + start_adj,
                         !.br_blockcount = @ - start_adj])

\* Change the start of an rmap
__xfs_rmap_move(t, ino, whichfork, PREV, start_adj) ==
    RmapMoveReadd(RmapDeleteBmbt(t, ino, whichfork, PREV),
                  ino, whichfork, PREV, start_adj)

RmapSlideReadd(r, ino, whichfork, PREV, start_adj) ==
    IF r.err # OK THEN r
    ELSE RmapInsertBmbt(r.t, ino, whichfork,
            [PREV EXCEPT !.br_startoff = @ + start_adj])

\* Change the logical offset of an rmap
__xfs_rmap_slide(t, ino, whichfork, PREV, start_adj) ==
    RmapSlideReadd(RmapDeleteBmbt(t, ino, whichfork, PREV),
                   ino, whichfork, PREV, start_adj)

\* "Delete prev rmap", unless PREV is a delayed allocation
RmapDeletePrev(r, ino, whichfork, PREV) ==
    IF r.err # OK \/ isnullstartblock(PREV.br_startblock) THEN r
    ELSE RmapDeleteBmbt(r.t, ino, whichfork, PREV)

RmapEnlargeLeft(r, ino, whichfork, LEFT, size_adj) ==
    IF r.err # OK THEN r
    ELSE __xfs_rmap_resize(r.t, ino, whichfork, LEFT, size_adj)

RmapEnlargeRight(r, ino, whichfork, RIGHT, start_adj) ==
    IF r.err # OK THEN r
    ELSE __xfs_rmap_move(r.t, ino, whichfork, RIGHT, start_adj)

\* Combine two adjacent rmap extents
__xfs_rmap_combine(t, ino, whichfork, LEFT, RIGHT, PREV) ==
    RmapEnlargeLeft(
        RmapDeletePrev(RmapDeleteBmbt(t, ino, whichfork, RIGHT),
                       ino, whichfork, PREV),
        ino, whichfork, LEFT, PREV.br_blockcount + RIGHT.br_blockcount)

\* Extend a left rmap extent
__xfs_rmap_lcombine(t, ino, whichfork, LEFT, PREV) ==
    RmapEnlargeLeft(RmapDeletePrev(RmapResult(t, OK), ino, whichfork, PREV),
                    ino, whichfork, LEFT, PREV.br_blockcount)

\* Extend a right rmap extent
__xfs_rmap_rcombine(t, ino, whichfork, RIGHT, PREV) ==
    RmapEnlargeRight(RmapDeletePrev(RmapResult(t, OK), ino, whichfork, PREV),
                     ino, whichfork, RIGHT, -PREV.br_blockcount)

\* the switch (free->ri_type) of __xfs_rmap_finish
ApplyIntent(t, ri) ==
    CASE ri.ri_type = "XFS_RMAP_COMBINE" ->
            __xfs_rmap_combine(t, ri.ri_ino, ri.ri_whichfork, ri.ri_left,
                               ri.ri_right, ri.ri_prev)
      [] ri.ri_type = "XFS_RMAP_LCOMBINE" ->
            __xfs_rmap_lcombine(t, ri.ri_ino, ri.ri_whichfork, ri.ri_left,
                                ri.ri_prev)
      [] ri.ri_type = "XFS_RMAP_RCOMBINE" ->
            __xfs_rmap_rcombine(t, ri.ri_ino, ri.ri_whichfork, ri.ri_right,
                                ri.ri_prev)
      [] ri.ri_type = "XFS_RMAP_INSERT" ->
            __xfs_rmap_insert(t, ri.ri_ino, ri.ri_whichfork, ri.ri_prev)
      [] ri.ri_type = "XFS_RMAP_DELETE" ->
            __xfs_rmap_delete(t, ri.ri_ino, ri.ri_whichfork, ri.ri_prev)
      [] ri.ri_type = "XFS_RMAP_MOVE" ->
            __xfs_rmap_move(t, ri.ri_ino, ri.ri_whichfork, ri.ri_prev,
                            ri.ri_adj)
      [] ri.ri_type = "XFS_RMAP_SLIDE" ->
            __xfs_rmap_slide(t, ri.ri_ino, ri.ri_whichfork, ri.ri_prev,
                             ri.ri_adj)
      [] ri.ri_type = "XFS_RMAP_RESIZE" ->
            __xfs_rmap_resize(t, ri.ri_ino, ri.ri_whichfork, ri.ri_prev,
                              ri.ri_adj)

\* what the calls of one flush are recorded as, in the order they are made
RollEvent == [ev |-> "xfs_trans_roll"]
ApplyEvent(ri) == [ev |-> "apply", ri |-> ri]

FinishResult(trees, rlist, err, log) ==
    [trees |-> trees, rlist |-> rlist, err |-> err, log |-> log]

\* the calls of one flush that take or release the AGF buffer or the cursor
\* of an AG
CursorEvent(ev, agno) == [ev |-> ev, agno |-> agno]

\* the call ev on what the pointer p names; none when p is NULL
EventsOf(ev, p) ==
    IF p = {} THEN <<>> ELSE <<CursorEvent(ev, CHOOSE c \in p : TRUE)>>

\* After the loop: "if (rcur) xfs_btree_del_cursor(...)" and
\* "if (agbp) xfs_trans_brelse(tp, agbp)".
FinishExit(trees, err, rcur, agbp, log) ==
    [trees |-> trees, err |-> err,
     log |-> log \o EventsOf("xfs_btree_del_cursor", rcur)
                 \o EventsOf("xfs_trans_brelse", agbp)]

\* The for loop of __xfs_rmap_finish: free is the k-th intent of l; rcur and
\* agbp are the AG the pointers rcur and agbp name ({} for NULL), which they
\* go on naming after the cursor was deleted and the buffer released; badagf
\* are the AGs whose AGF xfs_alloc_read_agf fails to read, stale whether a
\* failed read leaves agbp as it was or sets it to NULL.
\* xfs_rmapbt_init_cursor returns a cursor every time (xfs_rmap_btree.c:447).
RECURSIVE FinishWalk(_, _, _, _, _, _, _, _)
\* a step that goes on to the next intent whatever the last one returned
FinishStepGoesOn(trees, l, k, agno, r, badagf, stale, log) ==
    FinishWalk([trees EXCEPT ![agno] = r.t], l, k + 1, {agno}, {agno},
               badagf, stale, Append(log, ApplyEvent(l[k])))

FinishStep(trees, l, k, agno, r, badagf, stale, log) ==
    IF r.err # OK
    THEN FinishExit([trees EXCEPT ![agno] = r.t], r.err, {agno}, {agno},
                    Append(log, ApplyEvent(l[k])))
    ELSE FinishWalk([trees EXCEPT ![agno] = r.t], l, k + 1, {agno}, {agno},
                    badagf, stale, Append(log, ApplyEvent(l[k])))

\* xfs_alloc_read_agf and xfs_rmapbt_init_cursor for the AG of the intent
FinishOpen(trees, l, k, agno, rcur, agbp, badagf, stale, log) ==
    IF agno \in badagf
    THEN FinishExit(trees, EIO, rcur, IF stale THEN agbp ELSE {}, log)
    ELSE FinishStep(trees, l, k, agno, ApplyIntent(trees[agno], l[k]),
                    badagf, stale,
                    log \o <<CursorEvent("xfs_alloc_read_agf", agno),
                             CursorEvent("xfs_rmapbt_init_cursor", agno)>>)

FinishAt(trees, l, k, agno, rcur, agbp, badagf, stale, log) ==
    IF \E c \in rcur : agno < c
    THEN FinishExit(trees, EFSCORRUPTED, rcur, agbp, log)
    ELSE IF rcur = {}
    THEN FinishOpen(trees, l, k, agno, rcur, agbp, badagf, stale, log)
    ELSE IF \E c \in rcur : agno > c
    THEN FinishOpen(trees, l, k, agno, rcur, agbp, badagf, stale,
                    log \o EventsOf("xfs_btree_del_cursor", rcur)
                        \o EventsOf("xfs_trans_brelse", agbp))
    ELSE FinishStep(trees, l, k, agno, ApplyIntent(trees[agno], l[k]),
                    badagf, stale, log)

FinishWalk(trees, l, k, rcur, agbp, badagf, stale, log) ==
    IF k > Len(l) THEN FinishExit(trees, OK, rcur, agbp, log)
    ELSE FinishAt(trees, l, k, rmap_ag(l[k]), rcur, agbp, badagf, stale, log)

FinishDone(w) == FinishResult(w.trees, Rlist(<<>>, 0), w.err, w.log)

\* Free up any items left in the extent list, using the given transaction.
__xfs_rmap_finish(trees, rlist, badagf, stale, log) ==
    IF rlist.rl_count = 0 THEN FinishResult(trees, rlist, OK, log)
    ELSE FinishDone(FinishWalk(trees, rlist.rl_first, 1, {}, {}, badagf,
                               stale, log))

\* xfs_trans_roll(tpp, ip): the transaction is committed and *tpp is a new
\* one, or an error comes back
xfs_trans_roll(tpp, roll_err) ==
    IF roll_err # OK THEN [tp |-> tpp, err |-> roll_err]
    ELSE [tp |-> tpp + 1, err |-> OK]

\* a flush that goes to the intents whatever the roll returned
FinishRolledAnyway(roll, trees, rlist, badagf, stale) ==
    [tp |-> roll.tp]
    @@ __xfs_rmap_finish(trees, rlist, badagf, stale, <<RollEvent>>)

FinishRolled(roll, trees, rlist, badagf, stale) ==
    IF roll.err # OK
    THEN [tp |-> roll.tp] @@ FinishResult(trees, rlist, roll.err, <<RollEvent>>)
    ELSE [tp |-> roll.tp]
         @@ __xfs_rmap_finish(trees, rlist, badagf, stale, <<RollEvent>>)

\* a flush that goes to the intents without rolling the transaction
FinishWithoutRoll(tpp, trees, rlist, roll_err, badagf, stale) ==
    [tp |-> tpp] @@ __xfs_rmap_finish(trees, rlist, badagf, stale, <<>>)

\* Free up any items left in the intent list.
xfs_rmap_finish(tpp, trees, rlist, roll_err, badagf, stale) ==
    IF rlist.rl_count = 0
    THEN [tp |-> tpp] @@ FinishResult(trees, rlist, OK, <<>>)
    ELSE FinishRolled(xfs_trans_roll(tpp, roll_err), trees, rlist, badagf,
                      stale)

(***************************************************************************)
(* xfs_refcount.c                                                          *)
(***************************************************************************)
\* struct xfs_refcount_irec
Irec(bno, len, refc) ==
    [rc_startblock |-> bno, rc_blockcount |-> len, rc_refcount |-> refc]

\* "struct xfs_refcount_irec left = {0}"
ZeroIrec == Irec(0, 0, 0)

RCNEXT(rc) == rc.rc_startblock + rc.rc_blockcount

\* unsigned arithmetic of xfs_agblock_t and of xfs_nlink_t
AgbnoSub(a, b) == (a - b) % (MAXREFCEXTLEN + 1)
NlinkAdd(r, adj) == (r + adj) % (MAXREFCOUNT + 1)

\* xfs_btree_lookup(XFS_LOOKUP_LE): the cursor position of the last record
\* with rc_startblock <= bno, 0 (stat 0) when there is none
xfs_refcountbt_lookup_le(t, bno) ==
    LET S == {i \in 1..Len(t) : t[i].rc_startblock <= bno}
    IN  IF S = {} THEN 0 ELSE SetMax(S)

\* xfs_btree_lookup(XFS_LOOKUP_GE): the position of the first record with
\* rc_startblock >= bno, Len(t)+1 (stat 0) when there is none
xfs_refcountbt_lookup_ge(t, bno) ==
    LET S == {i \in 1..Len(t) : t[i].rc_startblock >= bno}
    IN  IF S = {} THEN Len(t) + 1 ELSE SetMin(S)

\* xfs_btree_get_rec: stat is 1 iff the cursor is on a record
HaveRec(t, cur) == cur >= 1 /\ cur <= Len(t)

\* xfs_refcountbt_update: rewrite the record under the cursor
xfs_refcountbt_update(t, cur, irec) == [t EXCEPT ![cur] = irec]

\* xfs_refcountbt_insert: a new record at the cursor position
xfs_refcountbt_insert(t, cur, irec) ==
    SubSeq(t, 1, cur - 1) \o <<irec>> \o SubSeq(t, cur, Len(t))

\* xfs_btree_delete of the record under the cursor
BtreeDelete(t, cur) == SubSeq(t, 1, cur - 1) \o SubSeq(t, cur + 1, Len(t))

\* xfs_refcountbt_delete: EFSCORRUPTED when the cursor is on no record;
\* afterwards the cursor is where lookup_ge(irec.rc_startblock) puts it
xfs_refcountbt_delete(t, cur) ==
    IF ~HaveRec(t, cur)
    THEN [t |-> t, cur |-> cur, err |-> EFSCORRUPTED]
    ELSE LET t2 == BtreeDelete(t, cur)
         IN  [t |-> t2,
              cur |-> xfs_refcountbt_lookup_ge(t2, t[cur].rc_startblock),
              err |-> OK]

\* a split that is left out: the record that crosses agbno stays whole
NoSplitLeft(t, agbno) == t

\* Split a left rcextent that crosses agbno.
try_split_left_rcextent(t, agbno) ==
    LET cur == xfs_refcountbt_lookup_le(t, agbno)
    IN  IF cur = 0 THEN t
        ELSE LET left == t[cur]
             IN  IF left.rc_startblock >= agbno \/ RCNEXT(left) <= agbno
                 THEN t
                 ELSE LET t2 == xfs_refcountbt_update(t, cur,
                                  [left EXCEPT !.rc_blockcount =
                                       agbno - left.rc_startblock])
                          tmp == Irec(agbno,
                                      left.rc_blockcount -
                                          (agbno - left.rc_startblock),
                                      left.rc_refcount)
                      IN  xfs_refcountbt_insert(t2, cur + 1, tmp)

\* a split that is left out: the record that crosses agbnext stays whole
NoSplitRight(t, agbnext) == t

\* Split a right rcextent that crosses agbnext.
try_split_right_rcextent(t, agbnext) ==
    LET cur == xfs_refcountbt_lookup_le(t, AgbnoSub(agbnext, 1))
    IN  IF cur = 0 THEN t
        ELSE LET right == t[cur]
             IN  IF RCNEXT(right) <= agbnext
                 THEN t
                 ELSE LET t2 == xfs_refcountbt_update(t, cur,
                                  Irec(agbnext,
                                       right.rc_blockcount -
                                           (agbnext - right.rc_startblock),
                                       right.rc_refcount))
                          tmp == [right EXCEPT !.rc_blockcount =
                                      agbnext - right.rc_startblock]
                      IN  xfs_refcountbt_insert(t2, cur, tmp)

XFS_FIND_RCEXT_SHARED == "XFS_FIND_RCEXT_SHARED"
XFS_FIND_RCEXT_COW == "XFS_FIND_RCEXT_COW"

\* does the flag test of find_left_extent / find_right_extent reject tmp
FlagsReject(tmp, flags) ==
    \/ flags = XFS_FIND_RCEXT_SHARED /\ tmp.rc_refcount < 2
    \/ flags = XFS_FIND_RCEXT_COW /\ tmp.rc_refcount > 1

\* Find the left extent and the one after it (cleft).
find_left_extent(t, agbno, aglen, flags) ==
    LET none == [left |-> ZeroIrec, cleft |-> ZeroIrec]
        cur == xfs_refcountbt_lookup_le(t, AgbnoSub(agbno, 1))
    IN  IF cur = 0 THEN none
        ELSE LET tmp == t[cur]
             IN  IF RCNEXT(tmp) # agbno THEN none
                 ELSE IF FlagsReject(tmp, flags) THEN none
                 ELSE IF HaveRec(t, cur + 1)
                      THEN LET nxt == t[cur + 1]
                           IN  IF nxt.rc_startblock = agbno
                               THEN [left |-> tmp, cleft |-> nxt]
                               ELSE [left |-> tmp,
                                     cleft |-> Irec(agbno,
                                         Min2(aglen,
                                              AgbnoSub(nxt.rc_startblock, agbno)),
                                         1)]
                      ELSE [left |-> tmp, cleft |-> Irec(agbno, aglen, 1)]

\* Find the right extent and the one before it (cright).
find_right_extent(t, agbno, aglen, flags) ==
    LET none == [right |-> ZeroIrec, cright |-> ZeroIrec]
        cur == xfs_refcountbt_lookup_ge(t, agbno + aglen)
    IN  IF ~HaveRec(t, cur) THEN none
        ELSE LET tmp == t[cur]
             IN  IF tmp.rc_startblock # agbno + aglen THEN none
                 ELSE IF FlagsReject(tmp, flags) THEN none
                 ELSE IF HaveRec(t, cur - 1)
                      THEN LET prv == t[cur - 1]
                           IN  IF RCNEXT(prv) = agbno + aglen
                               THEN [right |-> tmp, cright |-> prv]
                               ELSE LET s == Max2(agbno, RCNEXT(prv))
                                    IN  [right |-> tmp,
                                         cright |-> Irec(s,
                                             AgbnoSub(tmp.rc_startblock, s), 1)]
                      ELSE [right |-> tmp, cright |-> Irec(agbno, aglen, 1)]

\* a centre merge that is left out: index and range stay as they are
NoMergeCenter(t, left, center, extlen, agbno, aglen) ==
    [t |-> t, agbno |-> agbno, aglen |-> aglen, err |-> OK]

\* Merge the left, center, and right extents.
merge_center(t, left, center, extlen, agbno, aglen) ==
    LET fail(tt) == [t |-> tt, agbno |-> agbno, aglen |-> aglen,
                     err |-> EFSCORRUPTED]
        cur == xfs_refcountbt_lookup_ge(t, center.rc_startblock)
    IN  IF ~HaveRec(t, cur) THEN fail(t)
        ELSE LET d1 == xfs_refcountbt_delete(t, cur)
                 d2 == IF center.rc_refcount > 1
                       THEN xfs_refcountbt_delete(d1.t, d1.cur)
                       ELSE d1
             IN  IF d2.err # OK THEN fail(d2.t)
                 ELSE LET lc == xfs_refcountbt_lookup_le(d2.t,
                                                         left.rc_startblock)
                      IN  IF lc = 0 THEN fail(d2.t)
                          ELSE [t |-> xfs_refcountbt_update(d2.t, lc,
                                      [left EXCEPT !.rc_blockcount = extlen]),
                                agbno |-> agbno, aglen |-> 0, err |-> OK]

\* Merge with the left extent.
merge_left(t, left, cleft, agbno, aglen) ==
    LET fail(tt) == [t |-> tt, agbno |-> agbno, aglen |-> aglen,
                     err |-> EFSCORRUPTED]
        cc == xfs_refcountbt_lookup_le(t, cleft.rc_startblock)
        d1 == IF cleft.rc_refcount > 1
              THEN IF cc = 0 THEN [t |-> t, cur |-> 0, err |-> EFSCORRUPTED]
                   ELSE xfs_refcountbt_delete(t, cc)
              ELSE [t |-> t, cur |-> 0, err |-> OK]
    IN  IF d1.err # OK THEN fail(d1.t)
        ELSE LET lc == xfs_refcountbt_lookup_le(d1.t, left.rc_startblock)
             IN  IF lc = 0 THEN fail(d1.t)
                 ELSE [t |-> xfs_refcountbt_update(d1.t, lc,
                             [left EXCEPT !.rc_blockcount =
                                  left.rc_blockcount + cleft.rc_blockcount]),
                       agbno |-> agbno + cleft.rc_blockcount,
                       aglen |-> aglen - cleft.rc_blockcount,
                       err |-> OK]

\* a right merge that is left out: index and range stay as they are
NoMergeRight(t, right, cright, agbno, aglen) ==
    [t |-> t, agbno |-> agbno, aglen |-> aglen, err |-> OK]

\* Merge with the right extent.
merge_right(t, right, cright, agbno, aglen) ==
    LET fail(tt) == [t |-> tt, agbno |-> agbno, aglen |-> aglen,
                     err |-> EFSCORRUPTED]
        cc == xfs_refcountbt_lookup_le(t, cright.rc_startblock)
        d1 == IF cright.rc_refcount > 1
              THEN IF cc = 0 THEN [t |-> t, cur |-> 0, err |-> EFSCORRUPTED]
                   ELSE xfs_refcountbt_delete(t, cc)
              ELSE [t |-> t, cur |-> 0, err |-> OK]
    IN  IF d1.err # OK THEN fail(d1.t)
        ELSE LET rc == xfs_refcountbt_lookup_le(d1.t, right.rc_startblock)
             IN  IF rc = 0 THEN fail(d1.t)
                 ELSE [t |-> xfs_refcountbt_update(d1.t, rc,
                             Irec(right.rc_startblock - cright.rc_blockcount,
                                  right.rc_blockcount + cright.rc_blockcount,
                                  right.rc_refcount)),
                       agbno |-> agbno,
                       aglen |-> aglen - cright.rc_blockcount,
                       err |-> OK]

\* Try to merge with any extents on the boundaries of the adjustment range.
try_merge_rcextents(t, agbno, aglen, adjust, flags) ==
    LET fl == find_left_extent(t, agbno, aglen, flags)
        fr == find_right_extent(t, agbno, aglen, flags)
        left == fl.left
        cleft == fl.cleft
        right == fr.right
        cright == fr.cright
        same == [t |-> t, agbno |-> agbno, aglen |-> aglen, err |-> OK]
        cequal == /\ cleft.rc_startblock = cright.rc_startblock
                  /\ cleft.rc_blockcount = cright.rc_blockcount
        ulen3 == left.rc_blockcount + cleft.rc_blockcount + right.rc_blockcount
        tryRight(m) ==
            IF /\ right.rc_blockcount # 0
               /\ cright.rc_blockcount # 0
               /\ right.rc_refcount = NlinkAdd(cright.rc_refcount, adjust)
               /\ right.rc_blockcount + cright.rc_blockcount < MAXREFCEXTLEN
            THEN merge_right(m.t, right, cright, m.agbno, m.aglen)
            ELSE m
    IN  IF left.rc_blockcount = 0 /\ right.rc_blockcount = 0 THEN same
        ELSE IF /\ left.rc_blockcount # 0
                /\ right.rc_blockcount # 0
                /\ cleft.rc_blockcount # 0
                /\ cright.rc_blockcount # 0
                /\ cequal
                /\ left.rc_refcount = NlinkAdd(cleft.rc_refcount, adjust)
                /\ right.rc_refcount = NlinkAdd(cleft.rc_refcount, adjust)
                /\ ulen3 < MAXREFCEXTLEN
        THEN merge_center(t, left, cleft, ulen3, agbno, aglen)
        ELSE IF /\ left.rc_blockcount # 0
                /\ cleft.rc_blockcount # 0
                /\ left.rc_refcount = NlinkAdd(cleft.rc_refcount, adjust)
                /\ left.rc_blockcount + cleft.rc_blockcount < MAXREFCEXTLEN
        THEN LET m == merge_left(t, left, cleft, agbno, aglen)
             IN  IF m.err # OK THEN m
                 ELSE IF cequal THEN m
                 ELSE tryRight(m)
        ELSE tryRight(same)

\* what adjust_rcextents does not survive: an extent of the walk that is longer
\* than what is left of the range (aglen would wrap)
EWRAPPED == "EWRAPPED"

\* an add that drops the extent
AddFreeNothing(flist, bno, len) == flist

\* xfs_bmap_add_free(mp, flist, fsbno, len, oinfo)
xfs_bmap_add_free(flist, bno, len) ==
    Append(flist, [startblock |-> bno, blockcount |-> len])

\* Adjust the refcounts of middle extents: the while loop of adjust_rcextents,
\* cur being the cursor, flist the extents freed so far.
RECURSIVE AdjustWalk(_, _, _, _, _, _)
AdjustWalk(t, cur, agbno, aglen, adj, flist) ==
    IF aglen = 0 THEN [t |-> t, err |-> OK, flist |-> flist]
    ELSE
    LET ext == IF HaveRec(t, cur) THEN t[cur] ELSE Irec(AgBlocks, 0, 0)
        hole == ext.rc_startblock # agbno
        tmp == Irec(agbno,
                    Min2(aglen, AgbnoSub(ext.rc_startblock, agbno)),
                    1 + adj)
        t1 == IF hole /\ tmp.rc_refcount # 0
              THEN xfs_refcountbt_insert(t, cur, tmp) ELSE t
        fl1 == IF hole /\ tmp.rc_refcount = 0
               THEN xfs_bmap_add_free(flist, tmp.rc_startblock,
                                      tmp.rc_blockcount)
               ELSE flist
        agbno1 == IF hole THEN agbno + tmp.rc_blockcount ELSE agbno
        aglen1 == IF hole THEN aglen - tmp.rc_blockcount ELSE aglen
        cur1 == IF hole THEN xfs_refcountbt_lookup_ge(t1, agbno1) ELSE cur
        refc == NlinkAdd(ext.rc_refcount, adj)
    IN  IF aglen1 = 0 THEN [t |-> t1, err |-> OK, flist |-> fl1]
        ELSE IF ext.rc_blockcount = 0 \/ ext.rc_blockcount > aglen1
        THEN [t |-> t1, err |-> EWRAPPED, flist |-> fl1]
        ELSE IF ext.rc_refcount = MAXREFCOUNT
        THEN AdjustWalk(t1, cur1 + 1, agbno1 + ext.rc_blockcount,
                        aglen1 - ext.rc_blockcount, adj, fl1)
        ELSE IF refc > 1
        THEN AdjustWalk(xfs_refcountbt_update(t1, cur1,
                            [ext EXCEPT !.rc_refcount = refc]),
                        cur1 + 1, agbno1 + ext.rc_blockcount,
                        aglen1 - ext.rc_blockcount, adj, fl1)
        ELSE IF refc = 1
        THEN LET d == xfs_refcountbt_delete(t1, cur1)
             IN  IF d.err # OK
                 THEN [t |-> d.t, err |-> d.err, flist |-> fl1]
                 ELSE AdjustWalk(d.t, d.cur, agbno1 + ext.rc_blockcount,
                                 aglen1 - ext.rc_blockcount, adj, fl1)
        ELSE AdjustWalk(t1, cur1 + 1, agbno1 + ext.rc_blockcount,
                        aglen1 - ext.rc_blockcount, adj,
                        xfs_bmap_add_free(fl1, ext.rc_startblock,
                                          ext.rc_blockcount))

adjust_rcextents(t, agbno, aglen, adj) ==
    AdjustWalk(t, xfs_refcountbt_lookup_ge(t, agbno), agbno, aglen, adj, <<>>)

\* Adjust the reference count of a range of AG blocks.
xfs_refcountbt_adjust_refcount(t, agbno, aglen, adj) ==
    LET t1 == try_split_left_rcextent(t, agbno)
        t2 == try_split_right_rcextent(t1, agbno + aglen)
        m == try_merge_rcextents(t2, agbno, aglen, adj, XFS_FIND_RCEXT_SHARED)
    IN  IF m.err # OK THEN [t |-> m.t, err |-> m.err, flist |-> <<>>]
        ELSE adjust_rcextents(m.t, m.agbno, m.aglen, adj)

\* an increase that adds two to the refcount of its range
IncreaseByTwo(t, agbno, aglen) ==
    xfs_refcountbt_adjust_refcount(t, agbno, aglen, 2)

\* an increase that adds nothing to the refcount of its range
IncreaseByNone(t, agbno, aglen) ==
    xfs_refcountbt_adjust_refcount(t, agbno, aglen, 0)

\* an increase that refuses a range holding a record at the maximum
IncreaseRefusesMax(t, agbno, aglen) ==
    IF \E i \in 1..Len(t) :
          /\ t[i].rc_refcount = MAXREFCOUNT
          /\ t[i].rc_startblock < agbno + aglen
          /\ agbno < RCNEXT(t[i])
    THEN [t |-> t, err |-> EFSCORRUPTED, flist |-> <<>>]
    ELSE xfs_refcountbt_adjust_refcount(t, agbno, aglen, 1)

xfs_refcount_increase(t, agbno, aglen) ==
    xfs_refcountbt_adjust_refcount(t, agbno, aglen, 1)

\* a decrease that takes two off the refcount of its range
DecreaseByTwo(t, agbno, aglen) ==
    xfs_refcountbt_adjust_refcount(t, agbno, aglen, -2)

xfs_refcount_decrease(t, agbno, aglen) ==
    xfs_refcountbt_adjust_refcount(t, agbno, aglen, -1)

\* enum xfs_adjust_cow
XFS_ADJUST_COW_ALLOC == 0
XFS_ADJUST_COW_FREE == -1

\* Adjust the refcounts of CoW allocations.
adjust_cow_rcextents(t, agbno, aglen, adj) ==
    IF aglen = 0 THEN [t |-> t, err |-> OK, flist |-> <<>>]
    ELSE
    LET cur == xfs_refcountbt_lookup_ge(t, agbno)
        ext == IF HaveRec(t, cur) THEN t[cur] ELSE Irec(AgBlocks, 0, 0)
        bad == [t |-> t, err |-> EFSCORRUPTED, flist |-> <<>>]
    IN  IF adj = XFS_ADJUST_COW_ALLOC
        THEN IF ~(ext.rc_startblock >= agbno + aglen) THEN bad
             ELSE [t |-> xfs_refcountbt_insert(t, cur, Irec(agbno, aglen, 1)),
                   err |-> OK, flist |-> <<>>]
        ELSE IF \/ ext.rc_startblock # agbno
                \/ ext.rc_blockcount # aglen
                \/ ext.rc_refcount # 1
             THEN bad
             ELSE LET d == xfs_refcountbt_delete(t, cur)
                  IN  [t |-> d.t, err |-> d.err, flist |-> <<>>]

\* Add or remove refcount btree entries for CoW reservations.
xfs_refcountbt_adjust_cow_refcount(t, agbno, aglen, adj) ==
    LET t1 == try_split_left_rcextent(t, agbno)
        t2 == try_split_right_rcextent(t1, agbno + aglen)
        m == try_merge_rcextents(t2, agbno, aglen, adj, XFS_FIND_RCEXT_COW)
    IN  IF m.err # OK THEN [t |-> m.t, err |-> m.err, flist |-> <<>>]
        ELSE adjust_cow_rcextents(m.t, m.agbno, m.aglen, adj)

xfs_refcountbt_cow_alloc(t, agbno, aglen) ==
    xfs_refcountbt_adjust_cow_refcount(t, agbno, aglen, XFS_ADJUST_COW_ALLOC)

\* "Remove rmap entry": the second half of xfs_refcountbt_cow_free, r being
\* what the removal of the refcount btree reservation returned
CowFreeRmap(has, r, rt, agbno, aglen) ==
    IF r.err # OK \/ ~has
    THEN [t |-> r.t, err |-> r.err, flist |-> r.flist, rmapbt |-> rt]
    ELSE LET f == xfs_rmap_free(has, rt, agbno, aglen, XFS_RMAP_OWN_COW, 0)
         IN  [t |-> r.t, err |-> f.err, flist |-> r.flist, rmapbt |-> f.t]

\* the rmap record of the CoW reservation goes too, on a filesystem that
\* has the rmap btree
xfs_refcountbt_cow_free(has, t, rt, agbno, aglen) ==
    CowFreeRmap(has,
                xfs_refcountbt_adjust_cow_refcount(t, agbno, aglen,
                                                   XFS_ADJUST_COW_FREE),
                rt, agbno, aglen)

(***************************************************************************)
(* xfs_ag_resv.c: the per-AG reservation pool.                             *)
(***************************************************************************)
\* largest ask and used handed to a reservation, largest extent handed to it
MaxAsk == 3
MaxResvLen == 2

ENOSPC == "ENOSPC"

XFS_AG_RESV_NONE == "XFS_AG_RESV_NONE"
XFS_AG_RESV_METADATA == "XFS_AG_RESV_METADATA"
XFS_AG_RESV_AGFL == "XFS_AG_RESV_AGFL"

\* struct xfs_ag_resv
AgResv(asked, reserved) == [ar_asked |-> asked, ar_reserved |-> reserved]

\* XFS_AG_RESV(pag, type), of the two types that have an entry
XFS_AG_RESV(p, type) ==
    IF type = XFS_AG_RESV_METADATA THEN p.pag_meta_resv ELSE p.pag_agfl_resv

SetAgResv(p, type, resv) ==
    IF type = XFS_AG_RESV_METADATA
    THEN [p EXCEPT !.pag_meta_resv = resv]
    ELSE [p EXCEPT !.pag_agfl_resv = resv]

\* blocks of the data device (two AGs)
sb_dblocks == 2 * AgBlocks

\* the free-block counter takes a delta unless it would go below zero
xfs_mod_fdblocks(m, delta) ==
    IF m.m_fdblocks + delta < 0
    THEN [mp |-> m, error |-> ENOSPC]
    ELSE [mp |-> [m EXCEPT !.m_fdblocks = @ + delta], error |-> OK]

\* the transaction's delta of the free-block counter, as the counter has it
\* once the transaction commits; blocks of a delayed allocation
\* (XFS_TRANS_SB_RES_FDBLOCKS) left the counter when they were reserved
xfs_trans_mod_sb(m, field, delta) ==
    IF field = "XFS_TRANS_SB_FDBLOCKS"
    THEN [m EXCEPT !.m_fdblocks = @ + delta]
    ELSE m

ResvResult(p, m, error) == [pag |-> p, mp |-> m, error |-> error]

\* xfs_extlen_t is an unsigned integer; its width scaled to eight bits
ExtlenRange == 256
ExtlenWrap(x) == x % ExtlenRange

XFS_BTREE_MAXLEVELS == 8

CriticalBelow(avail, orig) ==
    avail < orig \div 10 \/ avail < XFS_BTREE_MAXLEVELS

xfs_ag_resv_critical(p, pf, type) ==
    IF type = XFS_AG_RESV_METADATA
    THEN CriticalBelow(
             ExtlenWrap(pf.pagf_freeblks - p.pag_agfl_resv.ar_reserved),
             p.pag_meta_resv.ar_asked)
    ELSE IF type = XFS_AG_RESV_AGFL
    THEN CriticalBelow(
             ExtlenWrap(pf.pagf_freeblks + pf.pagf_flcount
                        - p.pag_meta_resv.ar_reserved),
             p.pag_agfl_resv.ar_asked)
    ELSE FALSE

\* a free that gives back ar_reserved whatever the type
FreeReturnsReserved(p, m, type) ==
    LET t == XFS_AG_RESV(p, type)
        p1 == SetAgResv(p, type, AgResv(0, 0))
        m1 == [m EXCEPT !.m_ag_max_usable =
                            (@ + t.ar_asked) % (MAXREFCEXTLEN + 1)]
        r == xfs_mod_fdblocks(m1, t.ar_reserved)
    IN  ResvResult(p1, r.mp, r.error)

ag_resv_free(p, m, type) ==
    LET t == XFS_AG_RESV(p, type)
        p1 == SetAgResv(p, type, AgResv(0, 0))
        m1 == [m EXCEPT !.m_ag_max_usable =
                            (@ + t.ar_asked) % (MAXREFCEXTLEN + 1)]
        r == IF type = XFS_AG_RESV_AGFL
             THEN xfs_mod_fdblocks(m1, t.ar_asked)
             ELSE xfs_mod_fdblocks(m1, t.ar_reserved)
    IN  ResvResult(p1, r.mp, r.error)

FirstError(error, err2) == IF err2 # OK /\ error = OK THEN err2 ELSE error

xfs_ag_resv_free(p, m) ==
    LET a == ag_resv_free(p, m, XFS_AG_RESV_AGFL)
        b == ag_resv_free(a.pag, a.mp, XFS_AG_RESV_METADATA)
    IN  ResvResult(b.pag, b.mp, FirstError(FirstError(OK, a.error), b.error))

\* an init that takes the ask it was handed off m_ag_max_usable
InitUsableByAsk(p, m, type, ask0, used) ==
    LET ask == IF used > ask0 THEN used ELSE ask0
        resv == AgResv(ask, AgbnoSub(ask, used))
        p1 == SetAgResv(p, type, resv)
        m1 == [m EXCEPT !.m_ag_max_usable = AgbnoSub(@, ask0)]
        r == IF type = XFS_AG_RESV_AGFL
             THEN xfs_mod_fdblocks(m1, -resv.ar_asked)
             ELSE xfs_mod_fdblocks(m1, -resv.ar_reserved)
    IN  ResvResult(p1, r.mp, r.error)

ag_resv_init(p, m, type, ask0, used) ==
    LET ask == IF used > ask0 THEN used ELSE ask0
        resv == AgResv(ask, AgbnoSub(ask, used))
        p1 == SetAgResv(p, type, resv)
        m1 == [m EXCEPT !.m_ag_max_usable = AgbnoSub(@, ask)]
        r == IF type = XFS_AG_RESV_AGFL
             THEN xfs_mod_fdblocks(m1, -resv.ar_asked)
             ELSE xfs_mod_fdblocks(m1, -resv.ar_reserved)
    IN  ResvResult(p1, r.mp, r.error)

\* calc is what xfs_refcountbt_calc_reserves and xfs_rmapbt_calc_reserves
\* gave: [ask, used, error] for the metadata and for the AGFL reservation
xfs_ag_resv_init(p, m, calc_meta, calc_agfl) ==
    LET a == IF p.pag_meta_resv.ar_asked # 0
             THEN ResvResult(p, m, OK)
             ELSE LET i == ag_resv_init(p, m, XFS_AG_RESV_METADATA,
                                        calc_meta.ask, calc_meta.used)
                  IN  ResvResult(i.pag, i.mp,
                                 FirstError(FirstError(OK, calc_meta.error),
                                            i.error))
    IN  IF a.pag.pag_agfl_resv.ar_asked # 0
        THEN a
        ELSE LET i == ag_resv_init(a.pag, a.mp, XFS_AG_RESV_AGFL,
                                   calc_agfl.ask, calc_agfl.used)
             IN  ResvResult(i.pag, i.mp,
                            FirstError(FirstError(a.error, calc_agfl.error),
                                       i.error))

\* an allocation that grows a drained reservation by what it lacks and
\* charges m_ag_max_usable for it
AllocExtentGrowsAsked(p, m, type, len, wasdel) ==
    IF type = XFS_AG_RESV_NONE
    THEN ResvResult(p,
             xfs_trans_mod_sb(m, IF wasdel THEN "XFS_TRANS_SB_RES_FDBLOCKS"
                                           ELSE "XFS_TRANS_SB_FDBLOCKS", -len),
             OK)
    ELSE
    LET resv == XFS_AG_RESV(p, type) IN
    IF len > resv.ar_reserved
    THEN LET leftover == AgbnoSub(len, resv.ar_reserved)
         IN  ResvResult(SetAgResv(p, type,
                            AgResv(resv.ar_asked + leftover, 0)),
                 [m EXCEPT !.m_ag_max_usable = AgbnoSub(@, leftover)], OK)
    ELSE ResvResult(SetAgResv(p, type,
             [resv EXCEPT !.ar_reserved = AgbnoSub(@, len)]), m, OK)

xfs_ag_resv_alloc_extent(p, m, type, len, wasdel) ==
    IF type = XFS_AG_RESV_NONE
    THEN ResvResult(p,
             xfs_trans_mod_sb(m, IF wasdel THEN "XFS_TRANS_SB_RES_FDBLOCKS"
                                           ELSE "XFS_TRANS_SB_FDBLOCKS", -len),
             OK)
    ELSE
    LET resv == XFS_AG_RESV(p, type) IN
    IF len > resv.ar_reserved
    THEN LET leftover == AgbnoSub(len, resv.ar_reserved)
         IN  ResvResult(SetAgResv(p, type, [resv EXCEPT !.ar_reserved = 0]),
                 IF type # XFS_AG_RESV_AGFL
                 THEN xfs_trans_mod_sb(m, "XFS_TRANS_SB_FDBLOCKS", -leftover)
                 ELSE m,
                 OK)
    ELSE ResvResult(SetAgResv(p, type,
             [resv EXCEPT !.ar_reserved = AgbnoSub(@, len)]), m, OK)

\* a free that does not stop at ar_asked
FreeExtentUnclamped(p, m, type, len) ==
    IF type = XFS_AG_RESV_NONE
    THEN ResvResult(p, xfs_trans_mod_sb(m, "XFS_TRANS_SB_FDBLOCKS", len), OK)
    ELSE LET resv == XFS_AG_RESV(p, type)
         IN  ResvResult(SetAgResv(p, type,
                 [resv EXCEPT !.ar_reserved =
                                  (@ + len) % (MAXREFCEXTLEN + 1)]), m, OK)

\* a free that drops the blocks a full reservation cannot take
FreeExtentDropsLeftover(p, m, type, len) ==
    IF type = XFS_AG_RESV_NONE
    THEN ResvResult(p, xfs_trans_mod_sb(m, "XFS_TRANS_SB_FDBLOCKS", len), OK)
    ELSE LET resv == XFS_AG_RESV(p, type)
             sum == (resv.ar_reserved + len) % (MAXREFCEXTLEN + 1)
         IN  ResvResult(SetAgResv(p, type,
                 [resv EXCEPT !.ar_reserved =
                     IF sum > resv.ar_asked THEN resv.ar_asked ELSE sum]),
                 m, OK)

xfs_ag_resv_free_extent(p, m, type, len) ==
    IF type = XFS_AG_RESV_NONE
    THEN ResvResult(p, xfs_trans_mod_sb(m, "XFS_TRANS_SB_FDBLOCKS", len), OK)
    ELSE
    LET resv == XFS_AG_RESV(p, type)
        sum == (resv.ar_reserved + len) % (MAXREFCEXTLEN + 1)
    IN
    IF sum > resv.ar_asked
    THEN LET leftover == AgbnoSub(sum, resv.ar_asked)
         IN  ResvResult(SetAgResv(p, type,
                            [resv EXCEPT !.ar_reserved = resv.ar_asked]),
                 IF type # XFS_AG_RESV_AGFL
                 THEN xfs_trans_mod_sb(m, "XFS_TRANS_SB_FDBLOCKS", leftover)
                 ELSE m,
                 OK)
    ELSE ResvResult(SetAgResv(p, type, [resv EXCEPT !.ar_reserved = sum]),
                    m, OK)

(***************************************************************************)
(* The state after mount: an empty refcount index, the rmap index of a     *)
(* fresh AG, an empty deferred list, no reservation.                       *)
(***************************************************************************)
NoCall == [op |-> "none"]

\* mkfs's record for the AG headers at rm_startblock == 0
AgHeaderRmap == RmapIrec(0, 1, XFS_RMAP_OWN_FS, 0)

RefcStart ==
    /\ refcbt = <<>>
    /\ rc_call = NoCall
    /\ rc_error = OK
    /\ rc_flist = <<>>

RmapStart ==
    /\ rmapbt = <<AgHeaderRmap>>
    /\ rm_call = NoCall
    /\ rm_error = OK
    /\ rm_before = <<AgHeaderRmap>>

RlStart ==
    /\ rl_first = <<>>
    /\ rl_count = 0
    /\ rl_call = NoCall
    /\ rl_error = OK
    /\ rl_log = <<>>
    /\ rl_curs = <<>>
    /\ agf_rmapbt = [agno \in AGs |-> <<AgHeaderRmap>>]
    /\ tp = 0

\* no reservation, no call made yet
PoolStart ==
    /\ pag = [pag_meta_resv |-> AgResv(0, 0), pag_agfl_resv |-> AgResv(0, 0)]
    /\ crit = NoCall
    /\ mp = [m_ag_max_usable |-> AgBlocks, m_fdblocks |-> AgBlocks]
    /\ resv_call = NoCall
    /\ resv_error = OK

\* the free-space counters of the AG's struct xfs_perag
Pagf(freeblks, flcount) ==
    [pagf_freeblks |-> freeblks, pagf_flcount |-> flcount]

ResvStart ==
    /\ PoolStart
    /\ pagf = Pagf(AgBlocks, 0)

Start == RefcStart /\ RmapStart /\ RlStart /\ ResvStart

(***************************************************************************)
(* The refcount index as a state machine: one call per step, on a reflink  *)
(* filesystem without the rmap btree.                                      *)
(***************************************************************************)
\* the records are in key order, inside the AG, and no two share a block
RefcWellFormed(t) ==
    /\ \A i \in 1..Len(t) :
          /\ t[i].rc_blockcount > 0
          /\ RCNEXT(t[i]) <= AgBlocks
    /\ \A i \in 1..(Len(t) - 1) : RCNEXT(t[i]) <= t[i + 1].rc_startblock

\* the ranges a call is made on: inside the AG, at least one block
Ranges == {r \in (0..(AgBlocks - 1)) \X (1..AgBlocks) : r[1] + r[2] <= AgBlocks}

RefcInit == Start /\ hasrmapbt = FALSE

\* a call is made on a filesystem that is up (no earlier call failed) and
\* whose index passes for well formed
RefcCallable == rc_error = OK /\ RefcWellFormed(refcbt)

RefcReturn(op, agbno, aglen, res) ==
    /\ refcbt' = res.t
    /\ rc_error' = res.err
    /\ rc_flist' = res.flist
    /\ rc_call' = [op |-> op, agbno |-> agbno, aglen |-> aglen]
    /\ UNCHANGED <<hasrmapbt, rl_vars, resv_vars>>

Increase ==
    /\ RefcCallable
    /\ \E r \in Ranges :
          \E res \in {xfs_refcount_increase(refcbt, r[1], r[2])} :
             RefcReturn("increase", r[1], r[2], res)
    /\ UNCHANGED rm_vars

Decrease ==
    /\ RefcCallable
    /\ \E r \in Ranges :
          \E res \in {xfs_refcount_decrease(refcbt, r[1], r[2])} :
             RefcReturn("decrease", r[1], r[2], res)
    /\ UNCHANGED rm_vars

CowAlloc ==
    /\ RefcCallable
    /\ \E r \in Ranges :
          \E res \in {xfs_refcountbt_cow_alloc(refcbt, r[1], r[2])} :
             RefcReturn("cow_alloc", r[1], r[2], res)
    /\ UNCHANGED rm_vars

CowFree ==
    /\ RefcCallable
    /\ \E r \in Ranges :
          \E res \in {xfs_refcountbt_cow_free(hasrmapbt, refcbt, rmapbt,
                                              r[1], r[2])} :
             /\ RefcReturn("cow_free", r[1], r[2], res)
             /\ rmapbt' = res.rmapbt
    /\ UNCHANGED <<rm_call, rm_error, rm_before>>

\* every refcount call
RefcNext == Increase \/ Decrease \/ CowAlloc \/ CowFree
RefcSpec == RefcInit /\ [][RefcNext]_vars

\* share and unshare only: an AG on which no CoW reservation is ever recorded
SharedNext == Increase \/ Decrease
SharedSpec == RefcInit /\ [][SharedNext]_vars

(***************************************************************************)
(* The rmap index as a state machine: one xfs_rmap_alloc or xfs_rmap_free  *)
(* per step.                                                               *)
(***************************************************************************)
\* largest file offset handed to a call, most records the index grows to
MaxOff == 1
MaxRmapRecs == 4

\* the owners extents are mapped for: inodes, and the AG's own btrees
RmapOwners == Inodes \cup {XFS_RMAP_OWN_AG}

\* xfs_owner_info_unpack: an inode's extent has a data-fork file offset or
\* is a bmbt block; everything else has offset 0
Offsets(owner) ==
    IF XFS_RMAP_NON_INODE_OWNER(owner) THEN {0}
    ELSE (0..MaxOff) \cup {XFS_RMAP_OFF_BMBT}

\* the extents a call is made on: past the AG headers, inside the AG
RmapRanges == {r \in Ranges : r[1] >= 1}

\* the records are in strict key order
RmapWellFormed(t) ==
    \A i \in 1..(Len(t) - 1) : xfs_rmapxbt_key_diff(t[i], t[i + 1]) < 0

RmapInit == Start /\ hasrmapbt \in BOOLEAN

RmapCallable == rm_error = OK /\ RmapWellFormed(rmapbt)

RmapReturn(op, bno, len, owner, offset, res) ==
    /\ Len(res.t) <= MaxRmapRecs
    /\ rmapbt' = res.t
    /\ rm_error' = res.err
    /\ rm_before' = rmapbt
    /\ rm_call' = [op |-> op, bno |-> bno, len |-> len, owner |-> owner,
                   offset |-> offset]
    /\ UNCHANGED <<hasrmapbt, rc_vars, rl_vars, resv_vars>>

RmapAlloc ==
    /\ RmapCallable
    /\ \E r \in RmapRanges : \E owner \in RmapOwners :
          \E offset \in Offsets(owner) :
             \E res \in {xfs_rmap_alloc(hasrmapbt, rmapbt, r[1], r[2],
                                        owner, offset)} :
                RmapReturn("alloc", r[1], r[2], owner, offset, res)

\* growfs frees with XFS_RMAP_OWN_NULL and log recovery with
\* XFS_RMAP_OWN_UNKNOWN
RmapFree ==
    /\ RmapCallable
    /\ \E r \in RmapRanges :
          \E owner \in RmapOwners \cup {XFS_RMAP_OWN_NULL,
                                        XFS_RMAP_OWN_UNKNOWN} :
             \E offset \in Offsets(owner) :
                \E res \in {xfs_rmap_free(hasrmapbt, rmapbt, r[1], r[2],
                                          owner, offset)} :
                   RmapReturn("free", r[1], r[2], owner, offset, res)

RmapNext == RmapAlloc \/ RmapFree
RmapSpec == RmapInit /\ [][RmapNext]_vars

\* the same calls on an index that is empty and on the index of a fresh AG
BareRmapInit ==
    /\ RefcStart /\ RlStart /\ ResvStart
    /\ hasrmapbt = TRUE
    /\ rm_call = NoCall
    /\ rm_error = OK
    /\ rmapbt \in {<<>>, <<AgHeaderRmap>>}
    /\ rm_before = rmapbt
BareRmapSpec == BareRmapInit /\ [][RmapNext]_vars

(***************************************************************************)
(* The deferred intent list as a state machine: one queueing call or one   *)
(* xfs_rmap_cancel per step.                                               *)
(***************************************************************************)
RlInit == Start /\ hasrmapbt \in BOOLEAN

RlReturn(op, res) ==
    /\ Len(res.rl_first) <= MaxIntents
    /\ rl_first' = res.rl_first
    /\ rl_count' = res.rl_count
    /\ rl_call' = [op |-> op, was |-> rl_count]
    /\ rl_error' = OK
    /\ rl_log' = <<>>
    /\ rl_curs' = <<>>
    /\ UNCHANGED <<agf_rmapbt, tp>>
    /\ UNCHANGED <<hasrmapbt, rc_vars, rm_vars, resv_vars>>

CurRlist == Rlist(rl_first, rl_count)

QueueCombine ==
    \E ino \in Inodes, whichfork \in Forks, left \in Extents,
       right \in Extents, prev \in Extents :
       RlReturn("combine", xfs_rmap_combine(hasrmapbt, CurRlist, ino,
                                            whichfork, left, right, prev))

QueueLcombine ==
    \E ino \in Inodes, whichfork \in Forks, left \in Extents,
       prev \in Extents :
       RlReturn("lcombine", xfs_rmap_lcombine(hasrmapbt, CurRlist, ino,
                                              whichfork, left, prev))

QueueRcombine ==
    \E ino \in Inodes, whichfork \in Forks, right \in Extents,
       prev \in Extents :
       RlReturn("rcombine", xfs_rmap_rcombine(hasrmapbt, CurRlist, ino,
                                              whichfork, right, prev))

QueueInsert ==
    \E ino \in Inodes, whichfork \in Forks, new \in Extents :
       RlReturn("insert", xfs_rmap_insert(hasrmapbt, CurRlist, ino,
                                          whichfork, new))

QueueDelete ==
    \E ino \in Inodes, whichfork \in Forks, new \in Extents :
       RlReturn("delete", xfs_rmap_delete(hasrmapbt, CurRlist, ino,
                                          whichfork, new))

QueueMove ==
    \E ino \in Inodes, whichfork \in Forks, prev \in Extents,
       adj \in Adjs :
       RlReturn("move", xfs_rmap_move(hasrmapbt, CurRlist, ino,
                                      whichfork, prev, adj))

QueueSlide ==
    \E ino \in Inodes, whichfork \in Forks, prev \in Extents,
       adj \in Adjs :
       RlReturn("slide", xfs_rmap_slide(hasrmapbt, CurRlist, ino,
                                        whichfork, prev, adj))

QueueResize ==
    \E ino \in Inodes, whichfork \in Forks, prev \in Extents,
       adj \in Adjs :
       RlReturn("resize", xfs_rmap_resize(hasrmapbt, CurRlist, ino,
                                          whichfork, prev, adj))

Cancel == RlReturn("cancel", xfs_rmap_cancel(CurRlist))

QueueOps == {"combine", "lcombine", "rcombine", "insert", "delete", "move",
             "slide", "resize"}

QueueNext ==
    \/ QueueCombine \/ QueueLcombine \/ QueueRcombine \/ QueueInsert
    \/ QueueDelete \/ QueueMove \/ QueueSlide \/ QueueResize
RlNext == QueueNext \/ Cancel
RlSpec == RlInit /\ [][RlNext]_vars

\* most rolls of the transaction explored
MaxRolls == 1

\* the roll and the applications of intents, among the calls of a flush
IsCall(e) == e.ev \in {"xfs_trans_roll", "apply"}

\* xfs_rmap_finish: the roll fails or not, and so does the read of each AGF
Finish ==
    /\ tp < MaxRolls
    /\ \E roll_err \in {OK, EIO}, badagf \in SUBSET AGs, stale \in BOOLEAN :
          \E res \in {xfs_rmap_finish(tp, agf_rmapbt, CurRlist, roll_err,
                                      badagf, stale)} :
             /\ rl_first' = res.rlist.rl_first
             /\ rl_count' = res.rlist.rl_count
             /\ rl_call' = [op |-> "finish", was |-> rl_count]
             /\ rl_error' = res.err
             /\ rl_log' = SelectSeq(res.log, IsCall)
             /\ rl_curs' = SelectSeq(res.log, LAMBDA e : ~IsCall(e))
             /\ agf_rmapbt' = res.trees
             /\ tp' = res.tp
    /\ UNCHANGED <<hasrmapbt, rc_vars, rm_vars, resv_vars>>

\* queueing, cancelling and flushing
FinishNext == QueueNext \/ Cancel \/ Finish
FinishSpec == RlInit /\ [][FinishNext]_vars

(***************************************************************************)
(* The reservation pool as a state machine: one call per step.  The free-  *)
(* block counter stays between 0 and sb_dblocks: a transaction takes from  *)
(* it what it reserved and gives back what the device has.                 *)
(***************************************************************************)
ResvTypes == {XFS_AG_RESV_NONE, XFS_AG_RESV_METADATA, XFS_AG_RESV_AGFL}
ResvEntries == {XFS_AG_RESV_METADATA, XFS_AG_RESV_AGFL}

\* what a calc_reserves call can give; it is made only for a reservation
\* that is not set up yet
CalcReserves(resv) ==
    IF resv.ar_asked # 0
    THEN {[ask |-> 0, used |-> 0, error |-> OK]}
    ELSE [ask : 0..MaxAsk, used : 0..MaxAsk, error : {OK, EFSCORRUPTED}]

ResvInit == Start /\ hasrmapbt \in BOOLEAN

ResvReturn(op, type, len, calc, res) ==
    /\ res.mp.m_fdblocks \in 0..sb_dblocks
    /\ pag' = res.pag
    /\ mp' = res.mp
    /\ resv_error' = res.error
    /\ resv_call' = [op |-> op, type |-> type, len |-> len, calc |-> calc,
                     was |-> pag]
    /\ UNCHANGED <<pagf, crit>>
    /\ UNCHANGED <<hasrmapbt, rc_vars, rm_vars, rl_vars>>

AgResvInit ==
    \E calc_meta \in CalcReserves(pag.pag_meta_resv) :
       \E calc_agfl \in CalcReserves(pag.pag_agfl_resv) :
          \E res \in {xfs_ag_resv_init(pag, mp, calc_meta, calc_agfl)} :
             ResvReturn("init", "both", 0,
                        [meta |-> calc_meta, agfl |-> calc_agfl], res)

AgResvFree ==
    ResvReturn("free", "both", 0, <<>>, xfs_ag_resv_free(pag, mp))

AgResvAllocExtent ==
    \E type \in ResvTypes, len \in 1..MaxResvLen, wasdel \in BOOLEAN :
       ResvReturn("alloc_extent", type, len, <<>>,
                  xfs_ag_resv_alloc_extent(pag, mp, type, len, wasdel))

AgResvFreeExtent ==
    \E type \in ResvTypes, len \in 1..MaxResvLen :
       ResvReturn("free_extent", type, len, <<>>,
                  xfs_ag_resv_free_extent(pag, mp, type, len))

ResvNext == AgResvInit \/ AgResvFree \/ AgResvAllocExtent \/ AgResvFreeExtent
ResvSpec == ResvInit /\ [][ResvNext]_vars

\* the same calls on an AG that has any number of its blocks free
AgfInit ==
    /\ RefcStart /\ RmapStart /\ RlStart /\ PoolStart
    /\ hasrmapbt = TRUE
    /\ \E freeblks \in 0..AgBlocks : pagf = Pagf(freeblks, 0)
AgfSpec == AgfInit /\ [][ResvNext]_vars

(***************************************************************************)
(* xfs_ag_resv_critical on the reservations and free-space counters an AG *)
(* can have: ar_reserved never above ar_asked, and any number of free     *)
(* blocks, since nothing compares the free blocks with the reservations.  *)
(***************************************************************************)
CritBlocks == {0, 1, 7, 8, 9, 20, 100}
CritFlcounts == {0, 4}
CritResvs ==
    {AgResv(0, 0), AgResv(9, 1), AgResv(90, 9), AgResv(100, 10),
     AgResv(120, 12), AgResv(120, 120)}

CritInit ==
    /\ RefcStart /\ RmapStart /\ RlStart
    /\ hasrmapbt = TRUE
    /\ mp = [m_ag_max_usable |-> AgBlocks, m_fdblocks |-> AgBlocks]
    /\ resv_call = NoCall
    /\ resv_error = OK
    /\ crit = NoCall
    /\ \E meta \in CritResvs, agfl \in CritResvs :
          pag = [pag_meta_resv |-> meta, pag_agfl_resv |-> agfl]
    /\ \E freeblks \in CritBlocks, flcount \in CritFlcounts :
          pagf = Pagf(freeblks, flcount)

AgResvCritical ==
    \E type \in ResvEntries :
       /\ crit' = [op |-> "critical", type |-> type,
                   ret |-> xfs_ag_resv_critical(pag, pagf, type)]
       /\ UNCHANGED <<pag, pagf, mp, resv_call, resv_error>>
       /\ UNCHANGED <<rc_vars, hasrmapbt, rm_vars, rl_vars>>

CritNext == AgResvCritical
CritSpec == CritInit /\ [][CritNext]_vars

(***************************************************************************)
(* Properties of the refcount index.                                       *)
(***************************************************************************)
Blocks == 0..(AgBlocks - 1)

Covers(rc, b) == rc.rc_startblock <= b /\ b < RCNEXT(rc)

\* the records of t that hold block b
Holders(t, b) == {i \in 1..Len(t) : Covers(t[i], b)}

\* the refcount of block b: the stored one, 1 where no record holds b
EffRefcount(t, b) ==
    IF Holders(t, b) = {} THEN 1
    ELSE Max2(t[SetMin(Holders(t, b))].rc_refcount, 1)

InRange(call, b) == call.agbno <= b /\ b < call.agbno + call.aglen

CallAdjust(call) == IF call.op = "increase" THEN 1 ELSE -1

Succeeded(ops) == rc_error = OK /\ rc_call.op \in ops

\* C1: as long as every refcount call (increase, decrease, cow_alloc,
\* cow_free) has returned success, no two stored refcount records overlap.
C1_NoOverlap ==
    rc_error = OK =>
        \A i, j \in 1..Len(refcbt) :
            i # j => \/ RCNEXT(refcbt[i]) <= refcbt[j].rc_startblock
                     \/ RCNEXT(refcbt[j]) <= refcbt[i].rc_startblock

\* C2, as claimed: a successful increase or decrease changes the refcount of
\* every block of its range by its adjustment, whenever the adjusted value is
\* between 1 and the maximum, and leaves every other block's refcount alone.
C2_Conservation ==
    [][(rc_error' = OK /\ rc_call'.op \in {"increase", "decrease"}) =>
        \A b \in Blocks :
            LET old == EffRefcount(refcbt, b)
                new == EffRefcount(refcbt', b)
                adj == CallAdjust(rc_call')
            IN  IF ~InRange(rc_call', b) THEN new = old
                ELSE (old + adj >= 1 /\ old + adj <= MAXREFCOUNT)
                        => new = old + adj]_vars

\* C2, amended: the same for the blocks whose refcount before the call is
\* below the maximum; a block already at the maximum is left out.
C2_ConservationBelowMax ==
    [][(rc_error' = OK /\ rc_call'.op \in {"increase", "decrease"}) =>
        \A b \in Blocks :
            LET old == EffRefcount(refcbt, b)
                new == EffRefcount(refcbt', b)
                adj == CallAdjust(rc_call')
            IN  IF ~InRange(rc_call', b) THEN new = old
                ELSE (old + adj >= 1 /\ old < MAXREFCOUNT)
                        => new = old + adj]_vars

\* an increase of two blocks inside a longer run has raised them to
\* refcount 3 and left three records
C2_Witness ==
    /\ Succeeded({"increase"})
    /\ rc_call.aglen = 2
    /\ Len(refcbt) = 3
    /\ \A b \in Blocks : InRange(rc_call, b) => EffRefcount(refcbt, b) = 3

\* two records that touch and have the same refcount
AdjacentEqual(t, i) ==
    /\ RCNEXT(t[i]) = t[i + 1].rc_startblock
    /\ t[i].rc_refcount = t[i + 1].rc_refcount

MergeMaximal(t) == \A i \in 1..(Len(t) - 1) : ~AdjacentEqual(t, i)

\* no record of t is at the maximum refcount
BelowMax(t) == \A i \in 1..Len(t) : t[i].rc_refcount < MAXREFCOUNT

C4_IncreaseOverCowFails ==
    [][(/\ rc_call.op = "cow_alloc"
        /\ rc_error = OK
        /\ rc_call'.op = "increase"
        /\ rc_call'.agbno = rc_call.agbno
        /\ rc_call'.aglen = rc_call.aglen)
       => rc_error' = EFSCORRUPTED]_vars

(***************************************************************************)
(* Properties of the reservation pool.                                     *)
(***************************************************************************)
\* C5: after every xfs_ag_resv_init, xfs_ag_resv_alloc_extent,
\* xfs_ag_resv_free_extent and xfs_ag_resv_free, in any order, each
\* reservation of the AG has 0 <= ar_reserved <= ar_asked.
C5_ReservedWithinAsked ==
    \A type \in ResvEntries :
       /\ 0 <= XFS_AG_RESV(pag, type).ar_reserved
       /\ XFS_AG_RESV(pag, type).ar_reserved <= XFS_AG_RESV(pag, type).ar_asked

\* an extent was freed to a metadata reservation that had less room than
\* the extent's length
C5_Witness ==
    /\ resv_call.op = "free_extent"
    /\ resv_call.type = XFS_AG_RESV_METADATA
    /\ resv_call.was.pag_meta_resv.ar_asked > 0
    /\ resv_call.was.pag_meta_resv.ar_reserved + resv_call.len
          > resv_call.was.pag_meta_resv.ar_asked
    /\ pag.pag_meta_resv.ar_reserved = pag.pag_meta_resv.ar_asked

\* a step that allocates one block from a reservation that has none left
AllocAtZero(type) ==
    /\ resv_call'.op = "alloc_extent"
    /\ resv_call'.type = type
    /\ resv_call'.len = 1
    /\ XFS_AG_RESV(pag, type).ar_reserved = 0

\* C6 as the specification has it: one block allocated from a reservation
\* with ar_reserved == 0 does not fail and makes ar_asked one larger.
C6_AllocAtZeroGrowsAsked ==
    [][\A type \in ResvEntries :
          AllocAtZero(type)
          => /\ resv_error' = OK
             /\ XFS_AG_RESV(pag', type).ar_asked
                   = XFS_AG_RESV(pag, type).ar_asked + 1]_vars

\* C6 as the code has it: one block allocated from a reservation with
\* ar_reserved == 0 does not fail, leaves ar_asked as it was and ar_reserved
\* at 0, leaves m_ag_max_usable alone, and takes the block from the
\* free-block counter unless the reservation is the AGFL's.
C6_AllocAtZeroKeepsAsked ==
    [][\A type \in ResvEntries :
          AllocAtZero(type)
          => /\ resv_error' = OK
             /\ XFS_AG_RESV(pag', type) = XFS_AG_RESV(pag, type)
             /\ mp'.m_ag_max_usable = mp.m_ag_max_usable
             /\ mp'.m_fdblocks =
                   mp.m_fdblocks - (IF type = XFS_AG_RESV_AGFL THEN 0 ELSE 1)
      ]_vars

\* a block was allocated from a drained metadata reservation
C6_Witness ==
    /\ resv_call.op = "alloc_extent"
    /\ resv_call.type = XFS_AG_RESV_METADATA
    /\ resv_call.len = 1
    /\ resv_call.was.pag_meta_resv.ar_asked > 0
    /\ resv_call.was.pag_meta_resv.ar_reserved = 0
    /\ pag.pag_meta_resv = resv_call.was.pag_meta_resv

(***************************************************************************)
(* Properties of the rmap index.                                           *)
(***************************************************************************)
RmapEnd(rec) == rec.rm_startblock + XFS_RMAP_LEN(rec.rm_blockcount)

\* C7: an xfs_rmap_free of the extent, owner and offset that the successful
\* xfs_rmap_alloc before it was made with succeeds and leaves the index as
\* it was before the alloc.
C7_AllocThenFreeRestores ==
    [][(/\ hasrmapbt
        /\ rm_call.op = "alloc"
        /\ rm_error = OK
        /\ rm_call' = [rm_call EXCEPT !.op = "free"])
       => (rm_error' = OK /\ rmapbt' = rm_before)]_vars

\* C8: while every xfs_rmap_alloc and xfs_rmap_free has succeeded, no two
\* records of one owner hold a common block.
C8_NoSameOwnerOverlap ==
    rm_error = OK
    => \A i, j \in 1..Len(rmapbt) :
          (i # j /\ rmapbt[i].rm_owner = rmapbt[j].rm_owner)
          => \/ RmapEnd(rmapbt[i]) <= rmapbt[j].rm_startblock
             \/ RmapEnd(rmapbt[j]) <= rmapbt[i].rm_startblock

\* two records that xfs_rmap_alloc would have merged had it seen them side
\* by side
RmapMergeable(a, b) ==
    /\ a.rm_owner = b.rm_owner
    /\ ~XFS_RMAP_IS_UNWRITTEN(a.rm_blockcount)
    /\ ~XFS_RMAP_IS_UNWRITTEN(b.rm_blockcount)
    /\ XFS_RMAP_IS_ATTR_FORK(a.rm_offset) = XFS_RMAP_IS_ATTR_FORK(b.rm_offset)
    /\ XFS_RMAP_IS_BMBT(a.rm_offset) = XFS_RMAP_IS_BMBT(b.rm_offset)
    /\ RmapEnd(a) = b.rm_startblock

\* C9: after a successful xfs_rmap_alloc no two records of the same owner
\* and flags, neither unwritten, touch.
C9_RmapMergeMaximal ==
    (rm_call.op = "alloc" /\ rm_error = OK)
    => \A i, j \in 1..Len(rmapbt) :
          i # j => ~RmapMergeable(rmapbt[i], rmapbt[j])

(***************************************************************************)
(* Properties of the deferred intent list.                                 *)
(***************************************************************************)
\* l without its k-th element
Without(l, k) == SubSeq(l, 1, k - 1) \o SubSeq(l, k + 1, Len(l))

\* C10: after every queueing call the list is in non-decreasing order of
\* AG, rl_count is its length, and the intent just linked stands behind
\* every intent of its own AG that was queued before it.
C10_SortedFifoCounted ==
    [][/\ rl_count' = Len(rl_first')
       /\ \A i \in 1..(Len(rl_first') - 1) :
             rmap_ag(rl_first'[i]) <= rmap_ag(rl_first'[i + 1])
       /\ (hasrmapbt /\ rl_call'.op \in QueueOps)
          => \E k \in 1..Len(rl_first') :
                /\ Without(rl_first', k) = rl_first
                /\ \A i \in (k + 1)..Len(rl_first') :
                      rmap_ag(rl_first'[i]) > rmap_ag(rl_first'[k])]_vars

\* an intent was queued behind another of its AG and before one of a later AG
C10_Witness ==
    /\ rl_call.op \in QueueOps
    /\ rl_count = 3
    /\ Len(rl_first) = 3
    /\ rmap_ag(rl_first[1]) = rmap_ag(rl_first[2])
    /\ rmap_ag(rl_first[2]) < rmap_ag(rl_first[3])
    /\ rl_first[1] # rl_first[2]

\* C11: a flush of a non-empty list first rolls the transaction and then
\* applies the intents of the list one by one from its head, in the order
\* of the list, so in non-decreasing order of AG; a flush that returns
\* success has applied every intent of the list.
C11_RollThenListOrder ==
    [][(rl_call'.op = "finish" /\ rl_count > 0) =>
        /\ rl_log' # <<>>
        /\ rl_log'[1] = RollEvent
        /\ Len(rl_log') <= Len(rl_first) + 1
        /\ \A i \in 2..Len(rl_log') : rl_log'[i] = ApplyEvent(rl_first[i - 1])
        /\ \A i, j \in 2..Len(rl_log') :
              i < j => rmap_ag(rl_log'[i].ri) <= rmap_ag(rl_log'[j].ri)
        /\ rl_error' = OK => Len(rl_log') = Len(rl_first) + 1]_vars

\* a flush has applied three intents, of the first AG and then of the second
C11_Witness ==
    /\ rl_call.op = "finish"
    /\ rl_call.was = 3
    /\ rl_error = OK
    /\ Len(rl_log) = 4
    /\ rmap_ag(rl_log[2].ri) = 0
    /\ rmap_ag(rl_log[4].ri) = 1
    /\ agf_rmapbt[0] # <<AgHeaderRmap>>
    /\ agf_rmapbt[1] # <<AgHeaderRmap>>

\* C12: a cancel leaves the list empty (rl_count 0, rl_first NULL), makes
\* none of the calls a flush makes, and leaves the rmap btree of every AG
\* as it was.
C12_CancelDiscards ==
    [][rl_call'.op = "cancel" =>
        /\ rl_first' = <<>>
        /\ rl_count' = 0
        /\ rl_log' = <<>>
        /\ agf_rmapbt' = agf_rmapbt
        /\ rmapbt' = rmapbt]_vars

\* three queued intents were cancelled after an earlier flush had changed
\* the rmap btree of an AG
C12_Witness ==
    /\ rl_call.op = "cancel"
    /\ rl_call.was = 3
    /\ rl_count = 0
    /\ \E agno \in AGs : agf_rmapbt[agno] # <<AgHeaderRmap>>

(***************************************************************************)
(* Properties of xfs_ag_resv_init and xfs_ag_resv_free.                    *)
(***************************************************************************)
\* what calc_reserves gave for the reservation of a type
CalcOf(call, type) ==
    IF type = XFS_AG_RESV_METADATA THEN call.calc.meta ELSE call.calc.agfl

\* the step is an xfs_ag_resv_init that sets up the reservation of the type
Initialised(type) ==
    resv_call'.op = "init" /\ XFS_AG_RESV(pag, type).ar_asked = 0

AskOrUsed(c) == Max2(c.ask, c.used)

\* the entries ag_resv_init leaves: ar_asked = max(ask, used) and
\* ar_reserved = max(ask, used) - used
InitEntries ==
    \A type \in ResvEntries :
       Initialised(type) =>
          XFS_AG_RESV(pag', type) =
             AgResv(AskOrUsed(CalcOf(resv_call', type)),
                    AskOrUsed(CalcOf(resv_call', type))
                       - CalcOf(resv_call', type).used)

\* what the step takes off the free-block counter: ar_reserved for the
\* metadata reservation, ar_asked for the AGFL reservation
InitCharge ==
    (IF Initialised(XFS_AG_RESV_METADATA)
     THEN pag'.pag_meta_resv.ar_reserved ELSE 0)
    + (IF Initialised(XFS_AG_RESV_AGFL)
       THEN pag'.pag_agfl_resv.ar_asked ELSE 0)

\* m_ag_max_usable is an xfs_extlen_t: what is taken off it or added to it
\* is taken or added in that type's arithmetic.
\* C13 as the specification has it: init sets ar_asked to max(ask, used)
\* and ar_reserved to max(ask, used) - used, takes ask off m_ag_max_usable,
\* and takes ar_asked (AGFL) or ar_reserved (metadata) off the free-block
\* counter.
C13_InitTakesAsk ==
    [][resv_call'.op = "init" =>
        /\ InitEntries
        /\ mp'.m_ag_max_usable =
              AgbnoSub(mp.m_ag_max_usable,
                  (IF Initialised(XFS_AG_RESV_METADATA)
                   THEN resv_call'.calc.meta.ask ELSE 0)
                  + (IF Initialised(XFS_AG_RESV_AGFL)
                     THEN resv_call'.calc.agfl.ask ELSE 0))
        /\ mp'.m_fdblocks = mp.m_fdblocks - InitCharge]_vars

\* C13 as the code has it: init sets ar_asked to max(ask, used) and
\* ar_reserved to max(ask, used) - used, takes max(ask, used) off
\* m_ag_max_usable, and, when it returns success, has taken ar_asked (AGFL)
\* or ar_reserved (metadata) off the free-block counter.
C13_InitTakesAskOrUsed ==
    [][resv_call'.op = "init" =>
        /\ InitEntries
        /\ mp'.m_ag_max_usable =
              AgbnoSub(mp.m_ag_max_usable,
                  (IF Initialised(XFS_AG_RESV_METADATA)
                   THEN AskOrUsed(resv_call'.calc.meta) ELSE 0)
                  + (IF Initialised(XFS_AG_RESV_AGFL)
                     THEN AskOrUsed(resv_call'.calc.agfl) ELSE 0))
        /\ resv_error' = OK
              => mp'.m_fdblocks = mp.m_fdblocks - InitCharge]_vars

\* an init has set up a metadata reservation of which more was used than
\* asked for, and an AGFL reservation that is partly used
C13_Witness ==
    /\ resv_call.op = "init"
    /\ resv_error = OK
    /\ resv_call.was.pag_meta_resv.ar_asked = 0
    /\ resv_call.was.pag_agfl_resv.ar_asked = 0
    /\ resv_call.calc.meta.used > resv_call.calc.meta.ask
    /\ pag.pag_meta_resv = AgResv(resv_call.calc.meta.used, 0)
    /\ resv_call.calc.agfl.used > 0
    /\ resv_call.calc.agfl.ask > resv_call.calc.agfl.used
    /\ pag.pag_agfl_resv.ar_reserved > 0

\* C14: an init that leaves the AG with more reserved blocks than the AG
\* has free blocks returns ENOSPC.
C14_InitFailsBeyondFree ==
    [][(/\ resv_call'.op = "init"
        /\ \E type \in ResvEntries : Initialised(type)
        /\ pagf.pagf_freeblks + pagf.pagf_flcount
              < pag'.pag_meta_resv.ar_reserved + pag'.pag_agfl_resv.ar_reserved)
       => resv_error' = ENOSPC]_vars

\* C15: an init that returns ENOSPC leaves the reservations, m_ag_max_usable
\* and the free-block counter as they were.
C15_FailedInitUnchanged ==
    [][(resv_call'.op = "init" /\ resv_error' = ENOSPC)
       => (pag' = pag /\ mp' = mp)]_vars

\* what a free has to give back: all of asked to m_ag_max_usable, to the
\* free-block counter the blocks `returned` of the two reservations
FreeGivesBack(returned) ==
    /\ pag'.pag_meta_resv = AgResv(0, 0)
    /\ pag'.pag_agfl_resv = AgResv(0, 0)
    /\ mp'.m_ag_max_usable =
          AgbnoSub(mp.m_ag_max_usable + pag.pag_meta_resv.ar_asked
                                      + pag.pag_agfl_resv.ar_asked, 0)
    /\ mp'.m_fdblocks = mp.m_fdblocks + returned
    /\ (pag.pag_meta_resv = AgResv(0, 0) /\ pag.pag_agfl_resv = AgResv(0, 0))
          => (mp' = mp /\ pag' = pag)

\* C16 as claimed: a free gives the unused blocks (ar_reserved) of each
\* reservation back to the free-block counter, asked back to
\* m_ag_max_usable and zeroes the entries; on zero entries it changes nothing.
C16_FreeReturnsUnused ==
    [][resv_call'.op = "free" =>
        FreeGivesBack(pag.pag_meta_resv.ar_reserved
                      + pag.pag_agfl_resv.ar_reserved)]_vars

\* C16: a free gives ar_reserved of the metadata reservation and ar_asked
\* of the AGFL reservation back to the free-block counter, asked back to
\* m_ag_max_usable and zeroes the entries; on zero entries it changes nothing.
C16_FreeReturnsCharge ==
    [][resv_call'.op = "free" =>
        FreeGivesBack(pag.pag_meta_resv.ar_reserved
                      + pag.pag_agfl_resv.ar_asked)]_vars

\* a free of a used metadata and a used AGFL reservation has returned
C16_Witness ==
    /\ resv_call.op = "free"
    /\ resv_call.was.pag_meta_resv.ar_asked > resv_call.was.pag_meta_resv.ar_reserved
    /\ resv_call.was.pag_agfl_resv.ar_asked > resv_call.was.pag_agfl_resv.ar_reserved
    /\ resv_call.was.pag_agfl_resv.ar_reserved > 0
    /\ pag.pag_meta_resv = AgResv(0, 0)

\* the reservation of `type` before and after a step
ResvOf(p, type) ==
    IF type = XFS_AG_RESV_METADATA THEN p.pag_meta_resv ELSE p.pag_agfl_resv

FreeOneBlock(type) ==
    /\ resv_call'.op = "free_extent"
    /\ resv_call'.type = type
    /\ resv_call'.len = 1

\* C17 as claimed: a block freed back to a reservation adds one to
\* ar_reserved and one to the free-block counter.
C17_FreeBlockBoth ==
    [][\A type \in ResvEntries :
          FreeOneBlock(type) =>
             /\ ResvOf(pag', type).ar_reserved = ResvOf(pag, type).ar_reserved + 1
             /\ mp'.m_fdblocks = mp.m_fdblocks + 1]_vars

\* C17: a block freed back to a reservation that is not full adds one to
\* ar_reserved and leaves the free-block counter; a block freed back to a
\* full reservation leaves ar_reserved at ar_asked and goes to the
\* free-block counter if the reservation is the metadata one, nowhere if it
\* is the AGFL one.
C17_FreeBlockEither ==
    [][\A type \in ResvEntries :
          FreeOneBlock(type) =>
             /\ ResvOf(pag', type).ar_asked = ResvOf(pag, type).ar_asked
             /\ mp'.m_ag_max_usable = mp.m_ag_max_usable
             /\ IF ResvOf(pag, type).ar_reserved < ResvOf(pag, type).ar_asked
                THEN /\ ResvOf(pag', type).ar_reserved
                          = ResvOf(pag, type).ar_reserved + 1
                     /\ mp'.m_fdblocks = mp.m_fdblocks
                ELSE /\ ResvOf(pag', type).ar_reserved
                          = ResvOf(pag, type).ar_asked
                     /\ mp'.m_fdblocks = mp.m_fdblocks
                          + (IF type = XFS_AG_RESV_METADATA THEN 1 ELSE 0)]_vars

\* a block has been freed back to a full metadata reservation
C17_Witness ==
    /\ resv_call.op = "free_extent"
    /\ resv_call.type = XFS_AG_RESV_METADATA
    /\ resv_call.len = 1
    /\ resv_call.was.pag_meta_resv.ar_asked > 0
    /\ resv_call.was.pag_meta_resv.ar_reserved = resv_call.was.pag_meta_resv.ar_asked

(***************************************************************************)
(* Properties of xfs_ag_resv_critical.                                     *)
(***************************************************************************)
\* the blocks the AG has free beyond what the other reservation holds
Headroom(type) ==
    IF type = XFS_AG_RESV_METADATA
    THEN pagf.pagf_freeblks - pag.pag_agfl_resv.ar_reserved
    ELSE pagf.pagf_freeblks + pagf.pagf_flcount - pag.pag_meta_resv.ar_reserved

CriticalFloor(type) ==
    IF ResvOf(pag, type).ar_asked \div 10 > XFS_BTREE_MAXLEVELS
    THEN ResvOf(pag, type).ar_asked \div 10
    ELSE XFS_BTREE_MAXLEVELS

\* C18: xfs_ag_resv_critical returns true exactly when the headroom is
\* below the larger of a tenth of ar_asked and XFS_BTREE_MAXLEVELS, also
\* when the other reservation holds more blocks than the AG has free.
C18_CriticalIffBelowFloor ==
    crit.op = "critical" =>
        (crit.ret <=> Headroom(crit.type) < CriticalFloor(crit.type))

(***************************************************************************)
(* Properties of the stored refcount records.                              *)
(***************************************************************************)
\* C19: on an AG whose refcount index starts empty and sees only increase
\* and decrease calls, every stored record has a refcount of at least 2 and
\* a length above 0; blocks of refcount 1 have no record.
C19_StoredAtLeastTwo ==
    \A i \in 1..Len(refcbt) :
        refcbt[i].rc_refcount >= 2 /\ refcbt[i].rc_blockcount > 0

\* a decrease that freed nothing has left the first block of its range
\* without a record, beside a record that is still stored
C19_Witness ==
    /\ Succeeded({"decrease"})
    /\ rc_flist = <<>>
    /\ EffRefcount(refcbt, rc_call.agbno) = 1
    /\ Len(refcbt) > 0

\* block b is held by a CoW record (refcount 1) of t
CowHeld(t, b) == \E i \in Holders(t, b) : t[i].rc_refcount = 1

\* block b is held by a shared record (refcount 2 or more) of t
SharedHeld(t, b) == \E i \in Holders(t, b) : t[i].rc_refcount >= 2

\* record rc holds a block that a CoW record of t held and a block that a
\* shared record of t held
Combines(rc, t) ==
    \E b1, b2 \in Blocks :
        /\ Covers(rc, b1) /\ CowHeld(t, b1)
        /\ Covers(rc, b2) /\ SharedHeld(t, b2)

\* C20: no successful increase, decrease, cow_alloc or cow_free leaves a
\* record that was combined from blocks of a CoW record (refcount 1) and
\* blocks of a shared record (refcount 2 or more).
C20_NoCowSharedMerge ==
    [][rc_error' = OK =>
        \A i \in 1..Len(refcbt') : ~Combines(refcbt'[i], refcbt)]_vars

(***************************************************************************)
(* Properties of xfs_refcountbt_cow_alloc and xfs_refcountbt_cow_free.     *)
(***************************************************************************)
\* some record of t holds a block of the range of the call
RangeHeld(t, call) ==
    \E b \in Blocks : InRange(call, b) /\ Holders(t, b) # {}

\* C21: a cow_alloc over a range of which a stored record holds a block
\* returns EFSCORRUPTED and leaves no block under a CoW record that was not
\* under one before.
C21_CowAllocNeedsFreeRange ==
    [][(rc_call'.op = "cow_alloc" /\ RangeHeld(refcbt, rc_call')) =>
        /\ rc_error' = EFSCORRUPTED
        /\ \A b \in Blocks : CowHeld(refcbt', b) => CowHeld(refcbt, b)]_vars

\* one CoW record (refcount 1) of t holds the whole range of the call, so that
\* splitting at the ends of the range leaves one record that matches it
OneCowRecordHolds(t, call) ==
    \E i \in 1..Len(t) :
        /\ t[i].rc_refcount = 1
        /\ t[i].rc_startblock <= call.agbno
        /\ call.agbno + call.aglen <= RCNEXT(t[i])

\* C22: a cow_free returns success exactly when one CoW record holds its
\* whole range, and then takes the blocks of the range, and no other block,
\* out of the CoW records; in every other case it returns EFSCORRUPTED.
C22_CowFreeNeedsExactRecord ==
    [][rc_call'.op = "cow_free" =>
        IF OneCowRecordHolds(refcbt, rc_call')
        THEN /\ rc_error' = OK
             /\ \A b \in Blocks :
                   CowHeld(refcbt', b)
                      <=> (CowHeld(refcbt, b) /\ ~InRange(rc_call', b))
        ELSE rc_error' = EFSCORRUPTED]_vars

(***************************************************************************)
(* Properties of xfs_refcount_increase and xfs_refcount_decrease on given  *)
(* records.                                                                *)
(***************************************************************************)
Recs(t) == {t[i] : i \in 1..Len(t)}

\* a record of t ends where the range of the call starts, or starts where
\* it ends
RangeTouched(t, call) ==
    \E i \in 1..Len(t) :
        \/ RCNEXT(t[i]) = call.agbno
        \/ t[i].rc_startblock = call.agbno + call.aglen

\* C23: an increase over a range that holds no stored record and that no
\* stored record touches returns success and adds the one record
\* {agbno, aglen, refcount 2} to the index, every other record staying as
\* it was.
C23_IncreaseOfHole ==
    [][(/\ rc_call'.op = "increase"
        /\ ~RangeHeld(refcbt, rc_call')
        /\ ~RangeTouched(refcbt, rc_call'))
       => /\ rc_error' = OK
          /\ Len(refcbt') = Len(refcbt) + 1
          /\ Recs(refcbt') = Recs(refcbt)
                 \cup {Irec(rc_call'.agbno, rc_call'.aglen, 2)}
          /\ RefcWellFormed(refcbt')
          /\ rc_flist' = <<>>]_vars

\* an increase of two blocks has left its record as the second of two
\* records that do not touch
C23_Witness ==
    /\ Succeeded({"increase"})
    /\ Len(refcbt) = 2
    /\ refcbt[2] = Irec(rc_call.agbno, rc_call.aglen, 2)
    /\ rc_call.aglen = 2
    /\ RCNEXT(refcbt[1]) < rc_call.agbno

\* record i of t holds the range of the call and blocks on both sides of it
StrictlyInside(t, call, i) ==
    /\ t[i].rc_startblock < call.agbno
    /\ call.agbno + call.aglen < RCNEXT(t[i])

\* t with its record i cut at both ends of the range of the call, the part
\* in the range at refcount refc
CutInThree(t, call, i, refc) ==
    SubSeq(t, 1, i - 1)
    \o << Irec(t[i].rc_startblock, call.agbno - t[i].rc_startblock,
               t[i].rc_refcount),
          Irec(call.agbno, call.aglen, refc),
          Irec(call.agbno + call.aglen,
               RCNEXT(t[i]) - (call.agbno + call.aglen), t[i].rc_refcount) >>
    \o SubSeq(t, i + 1, Len(t))

\* C24 as claimed: an increase over a range strictly inside a stored record
\* of refcount r returns success and leaves in its place three records: the
\* left part at r, the range at r + 1, the right part at r.
C24_IncreaseInside ==
    [][rc_call'.op = "increase" =>
        \A i \in 1..Len(refcbt) :
            StrictlyInside(refcbt, rc_call', i) =>
                /\ rc_error' = OK
                /\ refcbt' = CutInThree(refcbt, rc_call', i,
                                        refcbt[i].rc_refcount + 1)]_vars

\* C24: the same for a record whose refcount r is below MAXREFCOUNT; a
\* record at MAXREFCOUNT is cut in the same three parts, all three at
\* MAXREFCOUNT.
C24_IncreaseInsideBelowMax ==
    [][rc_call'.op = "increase" =>
        \A i \in 1..Len(refcbt) :
            StrictlyInside(refcbt, rc_call', i) =>
                /\ rc_error' = OK
                /\ refcbt' = CutInThree(refcbt, rc_call', i,
                       IF refcbt[i].rc_refcount < MAXREFCOUNT
                       THEN refcbt[i].rc_refcount + 1
                       ELSE MAXREFCOUNT)]_vars

\* an increase of one block inside a record of three blocks has left three
\* records, the middle one at refcount 3
C24_Witness ==
    /\ Succeeded({"increase"})
    /\ refcbt = <<Irec(rc_call.agbno - 1, 1, 2),
                  Irec(rc_call.agbno, 1, 3),
                  Irec(rc_call.agbno + 1, 1, 2)>>

\* block b is in an extent handed to the free list
Freed(flist, b) ==
    \E k \in 1..Len(flist) :
        /\ flist[k].startblock <= b
        /\ b < flist[k].startblock + flist[k].blockcount

\* C25: a decrease over a range that holds a block of a record of refcount
\* 2 returns success; after it such a block has no record, and is in no
\* extent handed to the free list.
C25_DecreaseOfTwo ==
    [][rc_call'.op = "decrease" =>
        \A b \in Blocks :
            (/\ InRange(rc_call', b)
             /\ \E i \in Holders(refcbt, b) : refcbt[i].rc_refcount = 2)
            => /\ rc_error' = OK
               /\ Holders(refcbt', b) = {}
               /\ ~Freed(rc_flist', b)]_vars

\* a decrease of two blocks that freed nothing has emptied the index
C25_Witness ==
    /\ Succeeded({"decrease"})
    /\ rc_call.aglen = 2
    /\ rc_flist = <<>>
    /\ refcbt = <<>>

(***************************************************************************)
(* Properties of xfs_rmap_alloc and xfs_rmap_free on given records.        *)
(***************************************************************************)
\* the record of the extent of a call
CallRec(call) == RmapIrec(call.bno, call.len, call.owner, call.offset)

\* the step is an alloc, for an inode's data fork, on a filesystem with the
\* rmap btree
InodeAlloc ==
    /\ hasrmapbt
    /\ rm_call'.op = "alloc"
    /\ rm_call'.owner \in Inodes
    /\ ~XFS_RMAP_IS_BMBT(rm_call'.offset)

\* the step allocs the extent that follows, in the AG and in the file, the
\* extent of the alloc before it
FollowsLastAlloc ==
    /\ InodeAlloc
    /\ rm_call.op = "alloc"
    /\ rm_error = OK
    /\ rm_call'.owner = rm_call.owner
    /\ rm_call'.bno = rm_call.bno + rm_call.len
    /\ rm_call'.offset = rm_call.offset + rm_call.len

\* two allocs on the index base: the first stores its extent as a record
\* after those of base, the second, of the extent that follows, makes that
\* record longer
TwoAllocsMerge(base) ==
    /\ (InodeAlloc /\ rmapbt = base /\ rm_call'.bno > Len(base))
          => /\ rm_error' = OK
             /\ rmapbt' = base \o <<CallRec(rm_call')>>
    /\ (FollowsLastAlloc /\ rm_before = base
                         /\ rmapbt = base \o <<CallRec(rm_call)>>)
          => /\ rm_error' = OK
             /\ rmapbt' = base \o
                   <<RmapIrec(rm_call.bno, rm_call.len + rm_call'.len,
                              rm_call.owner, rm_call.offset)>>

Ltrec ==
    xfs_rmap_lookup_le(rmapbt, rm_call'.bno, rm_call'.len, rm_call'.owner,
                       rm_call'.offset)

RmapOverlaps(rec, call) ==
    /\ rec.rm_startblock < call.bno + call.len
    /\ call.bno < rec.rm_startblock + XFS_RMAP_LEN(rec.rm_blockcount)

\* C27: an alloc of an extent that shares a block with a stored record of
\* another owner returns EFSCORRUPTED and leaves the index as it was.
C27_AllocOverOtherOwnerFails ==
    [][(/\ hasrmapbt
        /\ rm_call'.op = "alloc"
        /\ \E i \in 1..Len(rmapbt) :
              /\ rmapbt[i].rm_owner # rm_call'.owner
              /\ RmapOverlaps(rmapbt[i], rm_call'))
       => (rm_error' = EFSCORRUPTED /\ rmapbt' = rmapbt)]_vars

\* the record before the position of the free of the step, 0 when there is
\* none
FreeLtrec ==
    xfs_rmap_lookup_le(rmapbt, rm_call'.bno, rm_call'.len, rm_call'.owner,
                       rm_call'.offset)

\* the record rec holds every block of the extent of the call
RmapContains(rec, call) ==
    /\ rec.rm_startblock <= call.bno
    /\ call.bno + call.len
          <= rec.rm_startblock + XFS_RMAP_LEN(rec.rm_blockcount)

\* the blocks and the owner of the record rec
Extent(rec) ==
    <<rec.rm_startblock, XFS_RMAP_LEN(rec.rm_blockcount), rec.rm_owner>>

\* what a free of the extent of the call leaves of the record rec that
\* contains it: nothing, the right part, the left part, or both parts
Remainders(rec, call) ==
    {<<rec.rm_startblock, call.bno - rec.rm_startblock, rec.rm_owner>> :
        x \in {0} \cap {IF rec.rm_startblock < call.bno THEN 0 ELSE 1}}
    \cup
    {<<call.bno + call.len,
       rec.rm_startblock + XFS_RMAP_LEN(rec.rm_blockcount)
          - (call.bno + call.len),
       rec.rm_owner>> :
        x \in {0} \cap {IF call.bno + call.len
                              < rec.rm_startblock
                                   + XFS_RMAP_LEN(rec.rm_blockcount)
                         THEN 0 ELSE 1}}

\* the number of records of t with the blocks and the owner e
Copies(t, e) == Cardinality({j \in 1..Len(t) : Extent(t[j]) = e})

\* the step replaced the record i of the index by what the free of the step
\* leaves of it, and kept the blocks and the owner of every other record
FreedFrom(i) ==
    \A e \in {Extent(rmapbt[j]) : j \in 1..Len(rmapbt)}
              \cup {Extent(rmapbt'[j]) : j \in 1..Len(rmapbt')}
              \cup Remainders(rmapbt[i], rm_call') :
        Copies(rmapbt', e)
           = Copies(rmapbt, e)
                - (IF e = Extent(rmapbt[i]) THEN 1 ELSE 0)
                + (IF e \in Remainders(rmapbt[i], rm_call') THEN 1 ELSE 0)

\* the step is a free for an owner other than XFS_RMAP_OWN_NULL on a
\* filesystem with the rmap btree
OwnerFree ==
    /\ hasrmapbt
    /\ rm_call'.op = "free"
    /\ rm_call'.owner # XFS_RMAP_OWN_NULL

\* the owner, fork and file offset of the call are those the record rec has
\* for the first block of the extent of the call
SameMapping(rec, call) ==
    /\ rec.rm_owner = call.owner
    /\ IF XFS_RMAP_NON_INODE_OWNER(call.owner) \/ XFS_RMAP_IS_BMBT(call.offset)
       THEN rec.rm_offset = call.offset
       ELSE call.offset = rec.rm_offset + (call.bno - rec.rm_startblock)

C29_NullOwnerFreeKeepsIndex ==
    [][(rm_call'.op = "free" /\ rm_call'.owner = XFS_RMAP_OWN_NULL)
          => /\ rmapbt' = rmapbt
             /\ rm_error' \in {OK, EFSCORRUPTED}]_vars

\* a free for XFS_RMAP_OWN_NULL returned success on an index that holds
\* records besides that of the AG headers
C29_Witness ==
    /\ hasrmapbt
    /\ rm_call.op = "free"
    /\ rm_call.owner = XFS_RMAP_OWN_NULL
    /\ rm_error = OK
    /\ Len(rm_before) >= 2
    /\ rmapbt = rm_before

(***************************************************************************)
(* Properties of xfs_refcount_increase at MAXREFCOUNT.                     *)
(***************************************************************************)
\* the range of the call holds a block whose refcount is the maximum
AtMax(t, call) ==
    \E b \in Blocks : InRange(call, b) /\ EffRefcount(t, b) = MAXREFCOUNT

\* no CoW record (stored refcount 1) holds block b
NoCowHolds(t, b) == \A i \in Holders(t, b) : t[i].rc_refcount # 1

\* C30: an increase over a range that holds a block at the maximum refcount
\* returns success; a block of the range at the maximum stays at the
\* maximum, and every other block of the range that no CoW record holds is
\* one higher than before.
C30_IncreaseClampedAtMax ==
    [][(rc_call'.op = "increase" /\ AtMax(refcbt, rc_call'))
        => /\ rc_error' = OK
           /\ \A b \in Blocks :
                 (InRange(rc_call', b) /\ NoCowHolds(refcbt, b)) =>
                    EffRefcount(refcbt', b)
                       = IF EffRefcount(refcbt, b) = MAXREFCOUNT
                         THEN MAXREFCOUNT
                         ELSE EffRefcount(refcbt, b) + 1]_vars

\* an increase of three blocks has returned success with two touching
\* one-block records at the maximum, as it leaves a record that was at the
\* maximum next to one it raised to it, and the third block raised to 3
C30_Witness ==
    /\ Succeeded({"increase"})
    /\ rc_call.aglen = 3
    /\ refcbt = <<Irec(rc_call.agbno, 1, MAXREFCOUNT),
                  Irec(rc_call.agbno + 1, 1, MAXREFCOUNT),
                  Irec(rc_call.agbno + 2, 1, 3)>>

(***************************************************************************)
(* Properties of try_merge_rcextents.                                      *)
(***************************************************************************)
\* the step is an increase or a decrease
Adjusts == rc_call'.op \in {"increase", "decrease"}

\* no record of t holds a block of the range of the call
RangeImplied(t, call) ==
    \A b \in Blocks : InRange(call, b) => Holders(t, b) = {}

\* the record i of t ends where the range of the call begins, and the range
\* is one extent of refcount c: the record after i when c > 1, no record
\* when c = 1
LeftThenCentre(t, call, i, c) ==
    /\ t[i].rc_refcount >= 2
    /\ RCNEXT(t[i]) = call.agbno
    /\ IF c = 1
       THEN RangeImplied(t, call)
       ELSE /\ i + 1 <= Len(t)
            /\ t[i + 1] = Irec(call.agbno, call.aglen, c)

\* the position of the record after the centre extent
RightPos(i, c) == IF c = 1 THEN i + 1 ELSE i + 2

\* the record at RightPos begins where the range of the call ends
ThenRight(t, call, i, c) ==
    /\ RightPos(i, c) <= Len(t)
    /\ t[RightPos(i, c)].rc_refcount >= 2
    /\ t[RightPos(i, c)].rc_startblock = call.agbno + call.aglen

\* C31, centre merge: when the range of an increase or a decrease is one
\* stored or implied extent of refcount c and the stored records touching
\* its two ends both have refcount c plus the adjustment, the call returns
\* success and leaves, in place of left record, centre and right record,
\* one record spanning the three at that refcount; when only the left
\* record has that refcount, the call leaves the left record lengthened by
\* the range, the centre record removed, and every other record, the right
\* one included, as it was.
C31_CentreMerge ==
    [][Adjusts =>
        \A i \in 1..Len(refcbt) : \A c \in 1..MAXREFCOUNT :
            (/\ LeftThenCentre(refcbt, rc_call', i, c)
             /\ refcbt[i].rc_refcount = c + CallAdjust(rc_call'))
            => /\ rc_error' = OK
               /\ IF /\ ThenRight(refcbt, rc_call', i, c)
                     /\ refcbt[RightPos(i, c)].rc_refcount
                           = c + CallAdjust(rc_call')
                  THEN refcbt' =
                         SubSeq(refcbt, 1, i - 1)
                         \o <<Irec(refcbt[i].rc_startblock,
                                   refcbt[i].rc_blockcount + rc_call'.aglen
                                     + refcbt[RightPos(i, c)].rc_blockcount,
                                   refcbt[i].rc_refcount)>>
                         \o SubSeq(refcbt, RightPos(i, c) + 1, Len(refcbt))
                  ELSE refcbt' =
                         SubSeq(refcbt, 1, i - 1)
                         \o <<Irec(refcbt[i].rc_startblock,
                                   refcbt[i].rc_blockcount + rc_call'.aglen,
                                   refcbt[i].rc_refcount)>>
                         \o SubSeq(refcbt, RightPos(i, c), Len(refcbt))]_vars

\* an increase or a decrease has left one record that reaches beyond both
\* ends of its range: left record, centre and right record merged
C31_Witness ==
    /\ Succeeded({"increase", "decrease"})
    /\ \E k \in 1..Len(refcbt) :
          /\ refcbt[k].rc_startblock < rc_call.agbno
          /\ rc_call.agbno + rc_call.aglen < RCNEXT(refcbt[k])
          /\ refcbt[k].rc_refcount < MAXREFCOUNT

(***************************************************************************)
(* Properties of the extents xfs_refcount_decrease hands to the free list. *)
(***************************************************************************)
\* the number of extents of the free list that hold block b
FreedTimes(flist, b) ==
    Cardinality({k \in 1..Len(flist) :
                    /\ flist[k].startblock <= b
                    /\ b < flist[k].startblock + flist[k].blockcount})

\* C32: a decrease hands to the free list, once each, the blocks of its
\* range whose refcount before the call was 1, and no other block.
C32_DecreaseFreesOnes ==
    [][rc_call'.op = "decrease" =>
        \A b \in Blocks :
            FreedTimes(rc_flist', b)
               = IF InRange(rc_call', b) /\ EffRefcount(refcbt, b) = 1
                 THEN 1 ELSE 0]_vars

\* a decrease has handed some blocks of its range to the free list and
\* kept others
C32_Witness ==
    /\ Succeeded({"decrease"})
    /\ \E b \in Blocks : InRange(rc_call, b) /\ FreedTimes(rc_flist, b) = 1
    /\ \E b \in Blocks : InRange(rc_call, b) /\ FreedTimes(rc_flist, b) = 0

\* C33: after an increase or a decrease that returned success no stored
\* record holds a block that the call handed to the free list.
C33_FreedBlocksHaveNoRecord ==
    [][(Adjusts /\ rc_error' = OK) =>
        \A b \in Blocks :
            Freed(rc_flist', b) => Holders(refcbt', b) = {}]_vars

(***************************************************************************)
(* Properties of ar_asked.                                                 *)
(***************************************************************************)
\* C34: xfs_ag_resv_alloc_extent and xfs_ag_resv_free_extent leave ar_asked
\* of both reservations as it was; ar_asked changes only in
\* xfs_ag_resv_init, which sets it from 0, and in xfs_ag_resv_free, which
\* sets it to 0.
C34_AskedSetByInitAndFree ==
    [][\A type \in ResvEntries :
          /\ resv_call'.op \in {"alloc_extent", "free_extent"}
                => XFS_AG_RESV(pag', type).ar_asked
                      = XFS_AG_RESV(pag, type).ar_asked
          /\ XFS_AG_RESV(pag', type).ar_asked
                # XFS_AG_RESV(pag, type).ar_asked
                => \/ /\ resv_call'.op = "init"
                      /\ XFS_AG_RESV(pag, type).ar_asked = 0
                   \/ /\ resv_call'.op = "free"
                      /\ XFS_AG_RESV(pag', type).ar_asked = 0]_vars

\* an allocation longer than what was reserved has drained a reservation
\* and left its ar_asked as it was
C34_Witness ==
    /\ resv_call.op = "alloc_extent"
    /\ resv_call.type = XFS_AG_RESV_METADATA
    /\ resv_call.was.pag_meta_resv.ar_asked > 0
    /\ resv_call.len > resv_call.was.pag_meta_resv.ar_reserved
    /\ pag.pag_meta_resv =
          AgResv(resv_call.was.pag_meta_resv.ar_asked, 0)

(***************************************************************************)
(* Properties of __xfs_rmap_finish.                                        *)
(***************************************************************************)
\* the step is a flush of a non-empty list whose roll succeeded, so that
\* __xfs_rmap_finish was called
ApplyRan ==
    /\ rl_call'.op = "finish"
    /\ rl_count > 0
    /\ tp' # tp

\* the rmap btrees after the intents log[i], log[i + 1], ... were applied
\* to trees in that order
RECURSIVE Replay(_, _, _)
Replay(trees, log, i) ==
    IF i > Len(log) THEN trees
    ELSE Replay([trees EXCEPT ![rmap_ag(log[i].ri)] =
                    ApplyIntent(trees[rmap_ag(log[i].ri)], log[i].ri).t],
                log, i + 1)

\* what applying log[j] returned, the intents before it having been applied
ReplayError(trees, log, j) ==
    ApplyIntent(Replay(trees, SubSeq(log, 1, j - 1), 2)[rmap_ag(log[j].ri)],
                log[j].ri).err

\* C35: when __xfs_rmap_finish returns, with success or with an error, the
\* list is empty (rl_count 0, rl_first NULL); the intents applied are the
\* first ones of the list, each once and in the order of the list; every
\* one of them but the last returned success, so that no intent after a
\* failed one was applied; the rmap btrees are what applying them leaves;
\* and on success every intent of the list was applied.
C35_ApplyDrainsList ==
    [][ApplyRan =>
        /\ rl_first' = <<>>
        /\ rl_count' = 0
        /\ Len(rl_log') <= Len(rl_first) + 1
        /\ \A i \in 2..Len(rl_log') : rl_log'[i] = ApplyEvent(rl_first[i - 1])
        /\ \A j \in 2..(Len(rl_log') - 1) :
              ReplayError(agf_rmapbt, rl_log', j) = OK
        /\ agf_rmapbt' = Replay(agf_rmapbt, rl_log', 2)
        /\ rl_error' = OK => Len(rl_log') = Len(rl_first) + 1]_vars

\* a flush of three intents has applied the first, failed at the second
\* and left the list empty
C35_Witness ==
    /\ rl_call.op = "finish"
    /\ rl_call.was = 3
    /\ rl_error = EFSCORRUPTED
    /\ Len(rl_log) = 3
    /\ rl_first = <<>>
    /\ rl_count = 0
    /\ \E agno \in AGs : agf_rmapbt[agno] # <<AgHeaderRmap>>

\* how many times the last flush made the call ev for the AG agno
CursorCalls(ev, agno) ==
    Cardinality({i \in 1..Len(rl_curs) : rl_curs[i] = CursorEvent(ev, agno)})

\* the cursor taken at position i of rl_curs is deleted before the next
\* cursor is taken
DeletedBeforeNext(i) ==
    \A j \in (i + 1)..Len(rl_curs) :
        rl_curs[j].ev = "xfs_rmapbt_init_cursor" =>
            \E d \in (i + 1)..(j - 1) :
                rl_curs[d] = CursorEvent("xfs_btree_del_cursor",
                                         rl_curs[i].agno)

\* C36: in a flush the cursor of an AG is taken at most once, and once for
\* every AG of the list when the flush returns success; a cursor is deleted
\* before the next one is taken; and every cursor taken is deleted exactly
\* once and every AGF buffer read is released exactly once, whatever the
\* flush returns.
C36_CursorsReleasedOnce ==
    /\ \A agno \in AGs :
          /\ CursorCalls("xfs_rmapbt_init_cursor", agno) <= 1
          /\ CursorCalls("xfs_btree_del_cursor", agno)
                = CursorCalls("xfs_rmapbt_init_cursor", agno)
          /\ CursorCalls("xfs_trans_brelse", agno)
                = CursorCalls("xfs_alloc_read_agf", agno)
    /\ \A i \in 1..Len(rl_curs) :
          rl_curs[i].ev = "xfs_rmapbt_init_cursor" => DeletedBeforeNext(i)
    /\ (rl_call.op = "finish" /\ rl_error = OK) =>
          \A i \in 2..Len(rl_log) :
              CursorCalls("xfs_rmapbt_init_cursor", rmap_ag(rl_log[i].ri)) = 1

(***************************************************************************)
(* Properties of xfs_rmap_finish.                                          *)
(***************************************************************************)
\* C37: a flush of a non-empty list whose roll fails returns the error of
\* the roll, applies no intent, takes no buffer or cursor, and leaves the
\* list and the rmap btrees as they were; a flush of an empty list returns
\* success and does not roll the transaction.
C37_FailedRollKeepsList ==
    [][rl_call'.op = "finish" =>
        /\ (rl_count > 0 /\ tp' = tp)
              => /\ rl_error' # OK
                 /\ rl_log' = <<RollEvent>>
                 /\ rl_curs' = <<>>
                 /\ rl_first' = rl_first
                 /\ rl_count' = rl_count
                 /\ agf_rmapbt' = agf_rmapbt
        /\ rl_count = 0
              => /\ rl_error' = OK
                 /\ rl_log' = <<>>
                 /\ tp' = tp
                 /\ rl_first' = rl_first
                 /\ rl_count' = rl_count
                 /\ agf_rmapbt' = agf_rmapbt]_vars

\* a flush of three intents has failed in the roll and left the three
\* intents on the list
C37_Witness ==
    /\ rl_call.op = "finish"
    /\ rl_call.was = 3
    /\ rl_error = EIO
    /\ rl_log = <<RollEvent>>
    /\ rl_count = 3
    /\ Len(rl_first) = 3
    /\ tp = 0

(***************************************************************************)
(* Properties of the free-block counter and the metadata reservation.      *)
(***************************************************************************)
\* the free-block counter plus what the metadata reservation holds, plus
\* what the AGFL reservation, set up and freed by the same calls, withholds
\* from the counter
MetaFree(p, m) ==
    m.m_fdblocks + p.pag_meta_resv.ar_reserved + p.pag_agfl_resv.ar_asked

\* C38: of the calls that return success, xfs_ag_resv_init and
\* xfs_ag_resv_free leave the free-block counter plus the reserved blocks
\* of the metadata reservation as it was, an allocation of len blocks from
\* the metadata reservation lowers it by len and a free of len blocks to
\* it raises it by len.
C38_CounterPlusReserved ==
    [][resv_error' = OK =>
        /\ resv_call'.op \in {"init", "free"}
              => MetaFree(pag', mp') = MetaFree(pag, mp)
        /\ (resv_call'.op = "alloc_extent"
              /\ resv_call'.type = XFS_AG_RESV_METADATA)
              => MetaFree(pag', mp') = MetaFree(pag, mp) - resv_call'.len
        /\ (resv_call'.op = "free_extent"
              /\ resv_call'.type = XFS_AG_RESV_METADATA)
              => MetaFree(pag', mp') = MetaFree(pag, mp) + resv_call'.len]_vars

\* an allocation from the metadata reservation has taken the blocks that
\* were reserved and the rest from the free-block counter
C38_Witness ==
    /\ resv_error = OK
    /\ resv_call.op = "alloc_extent"
    /\ resv_call.type = XFS_AG_RESV_METADATA
    /\ resv_call.was.pag_meta_resv.ar_reserved > 0
    /\ resv_call.len > resv_call.was.pag_meta_resv.ar_reserved
    /\ pag.pag_meta_resv.ar_reserved = 0
    /\ pag.pag_agfl_resv.ar_asked > 0

(***************************************************************************)
(* Properties of xfs_refcount_decrease at MAXREFCOUNT.                     *)
(***************************************************************************)
\* C39: a decrease over a range that holds a block at the maximum refcount
\* returns success and leaves every such block at the maximum.
C39_DecreaseKeepsMax ==
    [][(rc_call'.op = "decrease" /\ AtMax(refcbt, rc_call'))
        => /\ rc_error' = OK
           /\ \A b \in Blocks :
                 (InRange(rc_call', b)
                  /\ EffRefcount(refcbt, b) = MAXREFCOUNT)
                    => EffRefcount(refcbt', b) = MAXREFCOUNT]_vars

(***************************************************************************)
(* Properties of the file offsets xfs_rmap_free leaves.                    *)
(***************************************************************************)
\* the record rec is what the free of the step made of the located record
\* or of a part of it
LeftByFree(rec) ==
    /\ \A j \in 1..Len(rmapbt) : rmapbt[j] # rec
    /\ Extent(rec) \in Remainders(rmapbt[FreeLtrec], rm_call')

\* C40: after a free that returned success on a record of an inode's data
\* fork, every record the free left of it has the file offset of the
\* original record plus the distance from the original start block to its
\* own start block.
C40_RemaindersKeepOffsets ==
    [][(/\ OwnerFree
        /\ rm_error' = OK
        /\ ~XFS_RMAP_NON_INODE_OWNER(rm_call'.owner)
        /\ FreeLtrec # 0
        /\ ~XFS_RMAP_IS_BMBT(rmapbt[FreeLtrec].rm_offset))
       => \A k \in 1..Len(rmapbt') :
             LeftByFree(rmapbt'[k])
                => rmapbt'[k].rm_offset
                      = rmapbt[FreeLtrec].rm_offset
                           + (rmapbt'[k].rm_startblock
                                - rmapbt[FreeLtrec].rm_startblock)]_vars

====
